---------------------------- MODULE Spec2Model ----------------------------
(***************************************************************************)
(* Task-notification delivery engine of reminder-bot.                      *)
(*                                                                         *)
(*   app/repositories/core_tasks_repository.py  selectors, insert_event    *)
(*   app/worker/core_task_notify_worker.py      processors, delivery ledger*)
(*                                                                         *)
(* The relational store is the shared state: tasks, task_transitions,      *)
(* task_details, events.  Every SQL statement is one atomic step; a row    *)
(* lock taken by SELECT ... FOR UPDATE SKIP LOCKED is held until the       *)
(* transaction of the dispatcher process commits.                          *)
(***************************************************************************)
EXTENDS Integers, Sequences, FiniteSets, TLC

VARIABLES
    now,               \* wall clock (_utc_now), seconds
    tasks,             \* table tasks: id -> [status, updated_at]
    task_transitions,  \* table task_transitions, row id = index
    task_details,      \* table task_details (committed rows), row id = index
    llm_responses,     \* table llm_responses (orchestrator-owned)
    codegen_jobs,      \* table codegen_jobs (orchestrator-owned)
    locks,             \* row lock holder of each tasks row, 0 = unlocked
    proc,              \* each dispatcher process: position inside a batch
    bot_calls,         \* every bot.send_message invocation, in order
    events,            \* table events (committed rows), row id = field id
    sess,              \* each bot handler session: its open transaction
    event_seq          \* serial sequence events_id_seq

vars == <<now, tasks, task_transitions, task_details, llm_responses, codegen_jobs,
          locks, proc, bot_calls, events, sess, event_seq>>

engine_vars == <<now, tasks, task_transitions, task_details, llm_responses,
                 codegen_jobs, locks, proc, bot_calls>>

event_vars == <<events, sess, event_seq>>

---------------------------------------------------------------------------
(* Bounds of the model *)

NumTasks == 2
NumProcs == 2
MaxLedger == 2
MaxFacts == 2
MaxTicks == 1
MaxLimit == 2
NumSessions == 2
NumMessages == 2
MaxEvents == 3
MaxFaults == 1
MaxResults == 2
MaxElapses == 1
MaxTransitions == 3
MaxLedgerReentry == 4

Tasks == 1..NumTasks
Procs == 1..NumProcs

(* JSON null / Python None, for number-valued and for string-valued fields *)
NullInt == -1
Null == "null"
(* a missing row / dict (None where a dict is expected) *)
None == [none |-> TRUE]

(* core_task_notify_worker.py:31-33 and :214 *)
TG_MESSAGE_VERSION == 1
TG_DELIVERY_MAX_ATTEMPTS == 10
TG_DELIVERY_MAX_RETRY_WINDOW_SECONDS == 86400
BackoffSeq == <<10, 30, 120, 300, 900, 3600>>

Kinds == {"waiting_user", "codegen", "needs_review", "done", "failed", "stopped"}

KindStatus(kind) ==
    CASE kind = "waiting_user" -> "WAITING_USER"
      [] kind = "needs_review" -> "NEEDS_REVIEW"
      [] kind = "done"         -> "DONE"
      [] kind = "failed"       -> "FAILED"
      [] kind = "stopped"      -> "STOPPED_BY_USER"
      [] OTHER                 -> Null

MessageKind(kind) ==
    CASE kind = "waiting_user" -> "waiting_user"
      [] kind = "codegen"      -> "codegen"
      [] kind = "needs_review" -> "review_needed"
      [] kind = "done"         -> "final"
      [] kind = "failed"       -> "failed"
      [] kind = "stopped"      -> "stopped"

Max(a, b) == IF a >= b THEN a ELSE b
Min(a, b) == IF a <= b THEN a ELSE b

---------------------------------------------------------------------------
(* Detail store reads *)

DetailIds == 1..Len(task_details)

IdsOf(task_id, kind) ==
    {i \in DetailIds : task_details[i].task_id = task_id /\ task_details[i].kind = kind}

MaxOf(S) == CHOOSE x \in S : \A y \in S : y <= x

(* "ORDER BY id DESC LIMIT 1": content of the newest row, or None *)
Latest(S) == IF S = {} THEN None ELSE task_details[MaxOf(S)].content

get_raw_input(task_id) == Latest(IdsOf(task_id, "raw_input"))

UserFacingPurposes == {Null, "", "json_retry", "question_rework", "question_review_limit"}

(* the newest llm_result whatever its purpose *)
get_latest_llm_result_Unfiltered(task_id) == Latest(IdsOf(task_id, "llm_result"))

get_latest_llm_result(task_id) ==
    Latest({i \in IdsOf(task_id, "llm_result") :
               task_details[i].content.purpose \in UserFacingPurposes})

get_latest_waiting_user_reason(task_id) == Latest(IdsOf(task_id, "waiting_user_reason"))

get_latest_codegen_result(task_id) == Latest(IdsOf(task_id, "codegen_result"))

get_latest_codegen_job(task_id) ==
    LET S == {i \in 1..Len(codegen_jobs) : codegen_jobs[i].task_id = task_id}
    IN  IF S = {} THEN None ELSE codegen_jobs[MaxOf(S)]

get_latest_llm_response_by_request_id(rid) ==
    LET S == {i \in 1..Len(llm_responses) : llm_responses[i].llm_request_id = rid}
    IN  IF S = {} THEN None ELSE llm_responses[MaxOf(S)]

(* latest transition of the task into to_status: its id, or NullInt *)
LatestTransitionId(task_id, to_status) ==
    LET S == {i \in 1..Len(task_transitions) :
                 task_transitions[i].task_id = task_id /\
                 task_transitions[i].to_status = to_status}
    IN  IF S = {} THEN NullInt ELSE MaxOf(S)

---------------------------------------------------------------------------
(* Extractors and formatters (pure) *)

extract_chat_id(raw_input) ==
    IF raw_input = None THEN NullInt
    ELSE IF raw_input.chat_id # NullInt /\ raw_input.chat_id # 0
         THEN raw_input.chat_id ELSE NullInt

extract_question_text(raw_input) ==
    IF raw_input = None THEN Null
    ELSE IF raw_input.text \notin {Null, ""} THEN raw_input.text ELSE Null

extract_answer_text(llm_result) ==
    IF llm_result = None THEN Null
    ELSE IF llm_result.answer \notin {Null, ""} THEN llm_result.answer ELSE Null

extract_clarify_question(llm_result) ==
    IF llm_result = None THEN Null
    ELSE IF llm_result.clarify_question \notin {Null, ""}
         THEN llm_result.clarify_question ELSE Null

extract_waiting_reason_question(waiting_reason) ==
    IF waiting_reason = None THEN Null
    ELSE IF waiting_reason.question \notin {Null, ""} THEN waiting_reason.question ELSE Null

(* A rendered message is the record of its template and the facts in it;  *)
(* NoText is None (no message).                                            *)
NoText == [fmt |-> "none"]

format_message(task_id, question, answer) ==
    [fmt |-> "qa", task_id |-> task_id, question |-> question, answer |-> answer]

format_clarify_message(task_id, question) ==
    [fmt |-> "clarify", task_id |-> task_id, question |-> question]

format_codegen_message(task_id, codegen_result) ==
    [fmt |-> "codegen", task_id |-> task_id, pr_url |-> codegen_result.pr_url]

format_needs_review_message(task_id, answer, llm_error, pr_url, pr_error) ==
    [fmt |-> "needs_review", task_id |-> task_id, answer |-> answer,
     llm_error |-> llm_error,
     pr_url |-> IF pr_url # Null /\ pr_error # Null THEN pr_url ELSE Null,
     pr_error |-> IF pr_url # Null /\ pr_error # Null THEN pr_error ELSE Null]

format_done_task_message(task_id, codegen_result) ==
    [fmt |-> "done_task", task_id |-> task_id, pr_url |-> codegen_result.pr_url]

format_done_answer_message(task_id, answer) ==
    [fmt |-> "done_answer", task_id |-> task_id, answer |-> answer]

format_failed_message(task_id, error) ==
    [fmt |-> "failed", task_id |-> task_id, error |-> error]

format_stopped_message(task_id) ==
    [fmt |-> "stopped", task_id |-> task_id]

---------------------------------------------------------------------------
(* Work selectors *)

Row(task_id, transition_id, active_llm_request_id, codegen_detail_id) ==
    [id |-> task_id, status |-> tasks[task_id].status,
     transition_id |-> transition_id,
     active_llm_request_id |-> active_llm_request_id,
     codegen_detail_id |-> codegen_detail_id]

(* a selector without the row lock: locked rows are returned as well *)
SkipLocked_NoLock(E) == E

(* FOR UPDATE SKIP LOCKED: rows locked by another transaction are skipped *)
SkipLocked(E) == {t \in E : locks[t] = 0}

(* ORDER BY updated_at ASC LIMIT 1 (ties: any of the oldest) *)
OldestUpdated(U) == {t \in U : \A u \in U : tasks[t].updated_at <= tasks[u].updated_at}

pop_one_task_for_waiting_user_notify ==
    LET E == {t \in Tasks : /\ tasks[t].status = "WAITING_USER"
                            /\ IdsOf(t, "tg_waiting_user_notified") = {}}
    IN  {Row(t, NullInt, NullInt, NullInt) : t \in OldestUpdated(SkipLocked(E))}

pop_one_task_for_codegen_notify ==
    LET E == {t \in Tasks : /\ IdsOf(t, "codegen_result") # {}
                            /\ IdsOf(t, "tg_codegen_notified") = {}}
    IN  {Row(t, NullInt, NullInt, NullInt) : t \in OldestUpdated(SkipLocked(E))}

pop_one_task_for_needs_review_notify ==
    LET tr(t) == LatestTransitionId(t, "NEEDS_REVIEW")
        E == {t \in Tasks :
                /\ tr(t) # NullInt
                /\ tasks[t].status = "NEEDS_REVIEW"
                /\ \E i \in IdsOf(t, "raw_input") : task_details[i].content.kind = "question"
                /\ ~\E i \in IdsOf(t, "tg_needs_review_notified") :
                       task_details[i].content.transition_id = tr(t)}
        U == SkipLocked(E)
    IN  {Row(t, tr(t), NullInt, NullInt) : t \in {x \in U : \A u \in U : tr(x) <= tr(u)}}

(* ids of the tg_delivery rows of one correlation key; an id that is None *)
(* adds no filter (_get_latest_tg_delivery_attempt)                       *)
LedgerIds(task_id, message_kind, transition_id, llm_request_id, codegen_detail_id) ==
    {i \in IdsOf(task_id, "tg_delivery") :
        LET c == task_details[i].content IN
        /\ c.channel = "tg"
        /\ c.message_kind = message_kind
        /\ c.message_version = TG_MESSAGE_VERSION
        /\ (transition_id # NullInt => c.transition_id = transition_id)
        /\ (llm_request_id # NullInt => c.llm_request_id = llm_request_id)
        /\ (codegen_detail_id # NullInt => c.codegen_detail_id = codegen_detail_id)}

(* a read of the previous attempt that never filters by transition_id *)
get_latest_tg_delivery_attempt_AnyTransition(task_id, message_kind, transition_id, llm_request_id, codegen_detail_id) ==
    Latest(LedgerIds(task_id, message_kind, NullInt, llm_request_id, codegen_detail_id))

get_latest_tg_delivery_attempt(task_id, message_kind, transition_id, llm_request_id, codegen_detail_id) ==
    Latest(LedgerIds(task_id, message_kind, transition_id, llm_request_id,
                     codegen_detail_id))

(* the ledger predicate of the done / failed / stopped selectors: no sent *)
(* and no terminally failed entry for the transition, and a retryable     *)
(* failure only once its next_attempt_at has passed                       *)
LedgerAllowsSelect(task_id, message_kind, transition_id) ==
    LET K == LedgerIds(task_id, message_kind, transition_id, NullInt, NullInt)
        last == Latest(K)
    IN  /\ \A i \in K : /\ task_details[i].content.status # "sent"
                        /\ task_details[i].content.retryable
        /\ (K # {} => /\ last.next_attempt_at # NullInt
                      /\ last.next_attempt_at <= now)

(* the done notification waits for its artifact *)
HasDoneArtifact(t) == IdsOf(t, "llm_result") # {} \/ IdsOf(t, "codegen_result") # {}

Ready(kind, t) == kind = "done" => HasDoneArtifact(t)

TransitionSelector(kind) ==
    LET tr(t) == LatestTransitionId(t, KindStatus(kind))
        E == {t \in Tasks : /\ tasks[t].status = KindStatus(kind)
                            /\ tr(t) # NullInt
                            /\ Ready(kind, t)
                            /\ LedgerAllowsSelect(t, MessageKind(kind), tr(t))}
    IN  {Row(t, tr(t), NullInt, NullInt) : t \in OldestUpdated(SkipLocked(E))}

pop_one_task_for_done_notify == TransitionSelector("done")

pop_one_task_for_failed_notify == TransitionSelector("failed")

pop_one_task_for_stopped_notify == TransitionSelector("stopped")

Selector(kind) ==
    CASE kind = "waiting_user" -> pop_one_task_for_waiting_user_notify
      [] kind = "codegen"      -> pop_one_task_for_codegen_notify
      [] kind = "needs_review" -> pop_one_task_for_needs_review_notify
      [] kind = "done"         -> pop_one_task_for_done_notify
      [] kind = "failed"       -> pop_one_task_for_failed_notify
      [] kind = "stopped"      -> pop_one_task_for_stopped_notify
      [] OTHER                 -> {}

---------------------------------------------------------------------------
(* Delivery ledger *)

(* a backoff that grows by the first interval with every attempt *)
delivery_backoff_seconds_Linear(attempt_no) == BackoffSeq[1] * Max(attempt_no, 1)

delivery_backoff_seconds(attempt_no) ==
    BackoffSeq[Min(Max(attempt_no, 1) - 1, Len(BackoffSeq) - 1) + 1]

(* a cap that counts attempts and ignores the retry window *)
should_stop_retrying_AttemptsOnly(attempt_no, first_attempt_at, t) ==
    attempt_no >= TG_DELIVERY_MAX_ATTEMPTS

should_stop_retrying(attempt_no, first_attempt_at, t) ==
    IF attempt_no >= TG_DELIVERY_MAX_ATTEMPTS THEN TRUE
    ELSE IF TG_DELIVERY_MAX_RETRY_WINDOW_SECONDS <= 0 THEN FALSE
    ELSE IF first_attempt_at = NullInt THEN FALSE
    ELSE (t - first_attempt_at) >= TG_DELIVERY_MAX_RETRY_WINDOW_SECONDS

(* outcome of bot.send_message: it returns, or raises an exception of the *)
(* permanent class (TelegramForbiddenError, TelegramBadRequest) or another *)
SendOutcomes == {"ok", "transient", "permanent"}

ExcText(outcome) == IF outcome = "permanent" THEN "forbidden" ELSE "tg down"

(* a classification that takes every exception for a retryable one *)
classify_send_exception_AllRetryable(outcome) == <<TRUE, ExcText(outcome)>>

(* <<retryable, error>> *)
classify_send_exception(outcome) ==
    IF outcome = "permanent" THEN <<FALSE, ExcText(outcome)>> ELSE <<TRUE, ExcText(outcome)>>

Args(task_id, chat_id, text, message_kind, to_status, transition_id, llm_request_id, codegen_detail_id) ==
    [task_id |-> task_id, chat_id |-> chat_id, text |-> text,
     message_kind |-> message_kind, to_status |-> to_status,
     transition_id |-> transition_id, llm_request_id |-> llm_request_id,
     codegen_detail_id |-> codegen_detail_id]

(* an attempt counter that forgets the previous attempt *)
NextAttemptNo_Restart(prev) == 1

(* attempt_no of the attempt about to be made for the key *)
NextAttemptNo(prev) == (IF prev = None THEN 0 ELSE prev.attempt_no) + 1

(* a first_attempt_at that is taken anew at every attempt *)
FirstAttemptAt_Now(prev) == now

(* first_attempt_at = prev_first_attempt_at or now *)
FirstAttemptAt(prev) ==
    IF prev # None /\ prev.first_attempt_at # NullInt THEN prev.first_attempt_at ELSE now

(* a next_attempt_at that is written whatever the outcome *)
NextAttemptAt_Always(retryable, attempt_no) == now + delivery_backoff_seconds(attempt_no)

(* next_attempt_at: now + backoff when the failure is retryable, else None *)
NextAttemptAt(retryable, attempt_no) ==
    IF retryable THEN now + delivery_backoff_seconds(attempt_no) ELSE NullInt

(* a completeness test that looks at the chat id only *)
WillSend_ChatOnly(a) == a.chat_id # NullInt

(* whether the attempt reaches bot.send_message *)
WillSend(a) == a.chat_id # NullInt /\ a.text # NoText

(* the tg_delivery content of one attempt; message_id is the id the      *)
(* channel assigns when the send returns                                   *)
send_with_tg_delivery_trace(a, outcome, message_id) ==
    LET prev == get_latest_tg_delivery_attempt(a.task_id, a.message_kind, a.transition_id,
                                               a.llm_request_id, a.codegen_detail_id)
        attempt_no == NextAttemptNo(prev)
        first_attempt_at == FirstAttemptAt(prev)
        cls == classify_send_exception(outcome)
        capped == cls[1] /\ should_stop_retrying(attempt_no, first_attempt_at, now)
        status == IF WillSend(a) /\ outcome = "ok" THEN "sent" ELSE "failed"
        retryable == WillSend(a) /\ outcome # "ok" /\ cls[1] /\ ~capped
        error == IF ~WillSend(a) THEN "missing chat_id/text"
                 ELSE IF outcome = "ok" THEN Null
                 ELSE IF capped THEN "tg down (retry cap reached)"
                 ELSE cls[2]
    IN  [worker |-> "reminder_bot_core_task_notify_worker",
         channel |-> "tg",
         task_id |-> a.task_id,
         to_status |-> a.to_status,
         transition_id |-> a.transition_id,
         llm_request_id |-> a.llm_request_id,
         codegen_detail_id |-> a.codegen_detail_id,
         message_kind |-> a.message_kind,
         message_version |-> TG_MESSAGE_VERSION,
         status |-> status,
         attempt_no |-> attempt_no,
         retryable |-> retryable,
         error |-> error,
         chat_id |-> a.chat_id,
         telegram_message_id |-> IF status = "sent" THEN message_id ELSE NullInt,
         first_attempt_at |-> first_attempt_at,
         last_attempt_at |-> now,
         next_attempt_at |-> NextAttemptAt(retryable, attempt_no)]

---------------------------------------------------------------------------
(* Processors: the arguments each _process_one_* passes to                 *)
(* _send_with_tg_delivery_trace for the claimed row                        *)

process_one_waiting_user(row) ==
    LET raw_input == get_raw_input(row.id)
        llm_result == get_latest_llm_result(row.id)
        waiting_reason == get_latest_waiting_user_reason(row.id)
        chat_id == extract_chat_id(raw_input)
        q1 == extract_clarify_question(llm_result)
        question == IF q1 # Null THEN q1 ELSE extract_waiting_reason_question(waiting_reason)
        text == IF raw_input = None \/ (llm_result = None /\ waiting_reason = None)
                THEN NoText
                ELSE IF chat_id = NullInt \/ question = Null THEN NoText
                ELSE format_clarify_message(row.id, question)
    IN  Args(row.id, chat_id, text, "waiting_user", row.status, NullInt,
             row.active_llm_request_id, NullInt)

process_one_codegen_notify(row) ==
    LET raw_input == get_raw_input(row.id)
        codegen_result == get_latest_codegen_result(row.id)
        chat_id == extract_chat_id(raw_input)
        text == IF raw_input = None \/ codegen_result = None \/ chat_id = NullInt
                THEN NoText
                ELSE format_codegen_message(row.id, codegen_result)
    IN  Args(row.id, chat_id, text, "codegen", row.status, NullInt, NullInt,
             row.codegen_detail_id)

(* _extract_json_answer of a raw answer that is plain text *)
extract_json_answer(raw_answer) == IF raw_answer \in {Null, ""} THEN Null ELSE raw_answer

StrOrNull(row, v) == IF row = None \/ v \in {Null, ""} THEN Null ELSE v

process_one_needs_review(row) ==
    LET raw_input == get_raw_input(row.id)
        llm_result == get_latest_llm_result(row.id)
        chat_id == extract_chat_id(raw_input)
        llm_request_id == IF llm_result = None THEN NullInt ELSE llm_result.llm_request_id
        llm_response == IF llm_request_id \notin {NullInt, 0}
                        THEN get_latest_llm_response_by_request_id(llm_request_id)
                        ELSE None
        answer == IF llm_response = None THEN Null
                  ELSE extract_json_answer(llm_response.answer)
        llm_error == IF llm_response = None THEN Null
                     ELSE StrOrNull(llm_response, llm_response.error)
        job == get_latest_codegen_job(row.id)
        pr_url == IF job = None THEN Null ELSE StrOrNull(job, job.pr_url)
        pr_error == IF job = None THEN Null ELSE StrOrNull(job, job.error)
        text == IF chat_id = NullInt \/ row.transition_id = NullInt THEN NoText
                ELSE format_needs_review_message(row.id, answer, llm_error, pr_url, pr_error)
    IN  Args(row.id, chat_id, text, "review_needed", row.status, row.transition_id,
             NullInt, NullInt)

(* a done formatting whose question branch tests the answer the wrong way *)
DoneMessage_Inverted(task_id, raw_input, llm_result, codegen_result) ==
    LET kind == IF raw_input = None THEN Null ELSE raw_input.kind
        question == extract_question_text(raw_input)
        answer == extract_answer_text(llm_result)
    IN  IF kind = "question"
        THEN IF question # Null /\ answer = Null
             THEN format_message(task_id, question, answer) ELSE NoText
        ELSE IF codegen_result # None
             THEN format_done_task_message(task_id, codegen_result)
             ELSE IF answer # Null
                  THEN format_done_answer_message(task_id, answer) ELSE NoText

(* msg of _process_one_done *)
DoneMessage(task_id, raw_input, llm_result, codegen_result) ==
    LET kind == IF raw_input = None THEN Null ELSE raw_input.kind
        question == extract_question_text(raw_input)
        answer == extract_answer_text(llm_result)
    IN  IF kind = "question"
        THEN IF question # Null /\ answer # Null
             THEN format_message(task_id, question, answer) ELSE NoText
        ELSE IF codegen_result # None
             THEN format_done_task_message(task_id, codegen_result)
             ELSE IF answer # Null
                  THEN format_done_answer_message(task_id, answer) ELSE NoText

process_one_done(row) ==
    LET raw_input == get_raw_input(row.id)
        llm_result == get_latest_llm_result(row.id)
        codegen_result == get_latest_codegen_result(row.id)
    IN  Args(row.id, extract_chat_id(raw_input),
             DoneMessage(row.id, raw_input, llm_result, codegen_result),
             "final", row.status, row.transition_id, NullInt, NullInt)

(* a failed notification that drops the transition correlation *)
process_one_failed_Uncorrelated(row) ==
    LET raw_input == get_raw_input(row.id)
    IN  Args(row.id, extract_chat_id(raw_input), format_failed_message(row.id, Null),
             "failed", row.status, NullInt, NullInt, NullInt)

process_one_failed(row) ==
    LET raw_input == get_raw_input(row.id)
        llm_result == get_latest_llm_result(row.id)
        job == get_latest_codegen_job(row.id)
        e1 == IF llm_result = None THEN Null ELSE StrOrNull(llm_result, llm_result.error)
        err == IF e1 # Null THEN e1
               ELSE IF job = None THEN Null ELSE StrOrNull(job, job.error)
    IN  Args(row.id, extract_chat_id(raw_input), format_failed_message(row.id, err),
             "failed", row.status, row.transition_id, NullInt, NullInt)

process_one_stopped(row) ==
    LET raw_input == get_raw_input(row.id)
    IN  Args(row.id, extract_chat_id(raw_input), format_stopped_message(row.id),
             "stopped", row.status, row.transition_id, NullInt, NullInt)

ProcessOne(kind, row) ==
    CASE kind = "waiting_user" -> process_one_waiting_user(row)
      [] kind = "codegen"      -> process_one_codegen_notify(row)
      [] kind = "needs_review" -> process_one_needs_review(row)
      [] kind = "done"         -> process_one_done(row)
      [] kind = "failed"       -> process_one_failed(row)
      [] kind = "stopped"      -> process_one_stopped(row)

---------------------------------------------------------------------------
(* Initial state: every task exists with its raw_input detail *)

QuestionInput == [kind |-> "question", text |-> "What?", chat_id |-> 500]
TaskInput == [kind |-> "task", text |-> "Do it", chat_id |-> 500]
NoChatInput == [kind |-> "question", text |-> "What?", chat_id |-> NullInt]

Detail(task_id, kind, content) == [task_id |-> task_id, kind |-> kind, content |-> content]

Idle == [pc |-> "idle", kind |-> Null, limit |-> 0, processed |-> 0,
         row |-> None, entry |-> None]

EngineInit(RawInputs) ==
    /\ now = 0
    /\ tasks = [t \in Tasks |-> [status |-> "RUNNING", updated_at |-> 0]]
    /\ task_transitions = <<>>
    /\ \E f \in [Tasks -> RawInputs] :
          task_details = [t \in Tasks |-> Detail(t, "raw_input", f[t])]
    /\ llm_responses = <<>>
    /\ codegen_jobs = <<>>
    /\ locks = [t \in Tasks |-> 0]
    /\ proc = [p \in Procs |-> Idle]
    /\ bot_calls = <<>>

---------------------------------------------------------------------------
(* The events inbox: insert_event inside a handler's database session *)

Sessions == 1..NumSessions

MessageIds == 1..NumMessages

ChatId == 500

CommandNames == {"run", "hold"}

(* JSON values of a payload: an int, a string, null, or an object *)
JInt(n) == [t |-> "int", n |-> n]

JStr(s) == [t |-> "str", s |-> s]

JNull == [t |-> "null"]

JObj(f) == [t |-> "obj", f |-> f]

(* payload built by _insert_core_command *)
CommandPayload(name, message_id) ==
    [event_type |-> JStr("user_command"),
     tg |-> JObj([tg_id |-> JInt(7), chat_id |-> JInt(ChatId),
                  message_id |-> JInt(message_id)]),
     command |-> JObj([name |-> JStr(name), task_id |-> JInt(1), text |-> JNull])]

(* external_id = f"{message.chat.id}:{message.message_id}" *)
ExternalId(chat_id, message_id) == <<chat_id, ":", message_id>>

(* sha256 over the canonical JSON text: equal payloads, equal hashes *)
payload_hash(payload) == <<"sha256", payload>>

(* the strings of the model for which str.isdigit() holds, with int(s) *)
DigitValue == ("111" :> 111) @@ ("222" :> 222)

(* "for key in path": a step from a value that is not a dict ends with     *)
(* None, a missing key gives None                                          *)
RECURSIVE PathValue(_, _)
PathValue(cur, path) ==
    IF path = <<>> THEN cur
    ELSE IF cur.t # "obj" THEN JNull
    ELSE PathValue(IF path[1] \in DOMAIN cur.f THEN cur.f[path[1]] ELSE JNull, Tail(path))

(* a _payload_get_int that does not convert strings of digits *)
payload_get_int_IntOnly(payload, path) ==
    LET cur == PathValue(JObj(payload), path)
    IN  IF cur.t = "int" THEN cur.n ELSE NullInt

payload_get_int(payload, path) ==
    LET cur == PathValue(JObj(payload), path)
    IN  IF cur.t = "null" THEN NullInt
        ELSE IF cur.t = "int" THEN cur.n
        ELSE IF cur.t = "str" /\ cur.s \in DOMAIN DigitValue THEN DigitValue[cur.s]
        ELSE NullInt

payload_get_str(payload, path) ==
    LET cur == PathValue(JObj(payload), path)
    IN  IF cur.t = "str" /\ cur.s # "" THEN cur.s ELSE Null

(* the row insert_event writes *)
EventRow(id, source, external_id, payload) ==
    [id |-> id, source |-> source, external_id |-> external_id,
     payload_hash |-> payload_hash(payload), payload |-> payload,
     event_type |-> payload_get_str(payload, <<"event_type">>),
     tg_id |-> payload_get_int(payload, <<"tg", "tg_id">>),
     chat_id |-> payload_get_int(payload, <<"tg", "chat_id">>),
     request_kind |-> payload_get_str(payload, <<"request", "kind">>)]

SamePair(r, source, external_id) ==
    r.source = source /\ r.external_id = external_id

HasPair(rows, source, external_id) ==
    \E i \in 1..Len(rows) : SamePair(rows[i], source, external_id)

(* a store whose events table has no unique index *)
UniqueViolation_NoIndex(s, source, external_id) == FALSE

(* idx_events_source_external_id: the pair is already in a row visible to *)
(* the inserting transaction (committed, or inserted by itself)           *)
UniqueViolation(s, source, external_id) ==
    HasPair(events, source, external_id) \/ HasPair(sess[s].pending, source, external_id)

(* an uncommitted row of another transaction holds the index entry: the *)
(* INSERT waits for that transaction to end                             *)
WaitsForIndex(s, source, external_id) ==
    \E o \in Sessions \ {s} : HasPair(sess[o].pending, source, external_id)

NoTxn == [pc |-> "idle", pending |-> <<>>, call |-> None]

IntegrityError(source, external_id, payload) ==
    [ok |-> FALSE, error |-> "IntegrityError", source |-> source,
     external_id |-> external_id, payload_hash |-> payload_hash(payload)]

Returned(id, source, external_id, payload) ==
    [ok |-> TRUE, id |-> id, source |-> source,
     external_id |-> external_id, payload_hash |-> payload_hash(payload)]

EventInit ==
    /\ events = <<>>
    /\ sess = [s \in Sessions |-> NoTxn]
    /\ event_seq = 0

(* CoreTasksRepository.insert_event: INSERT INTO events ... RETURNING id *)
insert_event(s, source, external_id, payload) ==
    /\ sess[s].pc \in {"idle", "open"}
    /\ event_seq < MaxEvents
    /\ ~WaitsForIndex(s, source, external_id)
    /\ event_seq' = event_seq + 1
    /\ IF UniqueViolation(s, source, external_id)
       THEN sess' = [sess EXCEPT ![s].pc = "failed",
                                 ![s].call = IntegrityError(source, external_id, payload)]
       ELSE sess' = [sess EXCEPT
                ![s].pc = "open",
                ![s].pending = Append(@, EventRow(event_seq + 1, source,
                                                  external_id, payload)),
                ![s].call = Returned(event_seq + 1, source, external_id, payload)]
    /\ UNCHANGED <<events, engine_vars, locks, proc, bot_calls>>

(* session.commit() after the handler returned *)
SessionCommit(s) ==
    /\ sess[s].pc = "open"
    /\ events' = events \o sess[s].pending
    /\ sess' = [sess EXCEPT ![s] = NoTxn]
    /\ UNCHANGED <<event_seq, engine_vars, locks, proc, bot_calls>>

(* session.rollback() after the handler raised *)
SessionRollback(s) ==
    /\ sess[s].pc = "failed"
    /\ sess' = [sess EXCEPT ![s] = NoTxn]
    /\ UNCHANGED <<events, event_seq, engine_vars, locks, proc, bot_calls>>


---------------------------------------------------------------------------
(* The external orchestrator: it advances task status and appends facts *)

(* what the orchestrator has written since the tasks were created *)
OrchFacts ==
    Len(task_transitions)
    + Cardinality({i \in DetailIds : task_details[i].kind \notin {"raw_input", "tg_delivery"}})

LlmResultCount == Cardinality({i \in DetailIds : task_details[i].kind = "llm_result"})

OrchTransition(t, to) ==
    /\ OrchFacts < MaxFacts
    /\ tasks[t].status # to
    /\ locks[t] = 0
    /\ tasks' = [tasks EXCEPT ![t] = [status |-> to, updated_at |-> now]]
    /\ task_transitions' = Append(task_transitions,
           [task_id |-> t, from_status |-> tasks[t].status, to_status |-> to])
    /\ UNCHANGED <<now, task_details, llm_responses, codegen_jobs, locks, proc, bot_calls>>
    /\ UNCHANGED event_vars


(* the llm_result of a new LLM request: an answer, or a clarifying question *)
AnswerResult(rid) ==
    [llm_request_id |-> rid, answer |-> "Because.", clarify_question |-> Null,
     purpose |-> Null, error |-> Null]

ClarifyResult(rid) ==
    [llm_request_id |-> rid, answer |-> Null, clarify_question |-> "Clarify?",
     purpose |-> Null, error |-> Null]

OrchLlmResult(t, c) ==
    /\ OrchFacts < MaxFacts
    /\ c.llm_request_id = LlmResultCount + 1
    /\ task_details' = Append(task_details, Detail(t, "llm_result", c))
    /\ UNCHANGED <<now, tasks, task_transitions, llm_responses, codegen_jobs, locks,
                   proc, bot_calls>>
    /\ UNCHANGED event_vars

OrchCodegenResult(t) ==
    /\ OrchFacts < MaxFacts
    /\ task_details' = Append(task_details,
           Detail(t, "codegen_result", [pr_url |-> "https://example/pr/1"]))
    /\ UNCHANGED <<now, tasks, task_transitions, llm_responses, codegen_jobs, locks,
                   proc, bot_calls>>
    /\ UNCHANGED event_vars

LedgerCount ==
    Cardinality({i \in DetailIds : task_details[i].kind = "tg_delivery"})
    + Cardinality({p \in Procs : proc[p].pc = "commit"})

(* time passes between dispatcher cycles (run_loop sleeps), one shortest *)
(* backoff interval at a time                                            *)
Tick ==
    /\ \A p \in Procs : proc[p].pc = "idle"
    /\ now + BackoffSeq[1] <= MaxTicks * BackoffSeq[1]
    /\ now' = now + BackoffSeq[1]
    /\ UNCHANGED <<tasks, task_transitions, task_details, llm_responses, codegen_jobs,
                   locks, proc, bot_calls>>
    /\ UNCHANGED event_vars

---------------------------------------------------------------------------
(* A dispatcher process running process_core_<kind>_notifications(limit) *)

BatchLimit(limit) == Max(limit, 1)

StartBatch(p, kind, limit) ==
    /\ proc[p].pc = "idle"
    /\ proc' = [proc EXCEPT ![p] = [Idle EXCEPT !.pc = "select", !.kind = kind,
                                                !.limit = limit]]
    /\ UNCHANGED <<now, tasks, task_transitions, task_details, llm_responses,
                   codegen_jobs, locks, bot_calls>>
    /\ UNCHANGED event_vars

(* the selector returns no row: _process_one_* returns False, the loop breaks *)
SelectNone(p) ==
    /\ proc[p].pc = "select"
    /\ Selector(proc[p].kind) = {}
    /\ proc' = [proc EXCEPT ![p].pc = "returned"]
    /\ UNCHANGED <<now, tasks, task_transitions, task_details, llm_responses,
                   codegen_jobs, locks, bot_calls>>
    /\ UNCHANGED event_vars

BotCall(a, outcome) ==
    [task_id |-> a.task_id, message_kind |-> a.message_kind,
     transition_id |-> a.transition_id, llm_request_id |-> a.llm_request_id,
     codegen_detail_id |-> a.codegen_detail_id,
     chat_id |-> a.chat_id, text |-> a.text, outcome |-> outcome]

(* _process_one_* up to its commit: the selector returns a row and holds  *)
(* its lock; fact gathering, formatting, previous-attempt lookup, send    *)
ProcessItemWithin(p, row, outcome, maxLedger) ==
    /\ proc[p].pc = "select"
    /\ row \in Selector(proc[p].kind)
    /\ LedgerCount < maxLedger
    /\ locks' = [locks EXCEPT ![row.id] = p]
    /\ LET a == ProcessOne(proc[p].kind, row)
       IN  /\ (~WillSend(a) => outcome = "ok")
           /\ proc' = [proc EXCEPT ![p].pc = "commit", ![p].row = row,
                  ![p].entry = send_with_tg_delivery_trace(a, outcome, Len(bot_calls) + 1)]
           /\ bot_calls' = IF WillSend(a) THEN Append(bot_calls, BotCall(a, outcome))
                           ELSE bot_calls
    /\ UNCHANGED <<now, tasks, task_transitions, task_details, llm_responses,
                   codegen_jobs>>
    /\ UNCHANGED event_vars

ProcessItem(p, row, outcome) == ProcessItemWithin(p, row, outcome, MaxLedger)

(* a commit in the manner of the legacy delivery path, which also moves    *)
(* the notified task on                                                    *)
Commit_MovesTask(p) ==
    /\ proc[p].pc = "commit"
    /\ task_details' = Append(task_details,
           Detail(proc[p].row.id, "tg_delivery", proc[p].entry))
    /\ tasks' = [tasks EXCEPT ![proc[p].row.id].status = "DONE"]
    /\ task_transitions' = Append(task_transitions,
           [task_id |-> proc[p].row.id, from_status |-> tasks[proc[p].row.id].status,
            to_status |-> "DONE"])
    /\ locks' = [locks EXCEPT ![proc[p].row.id] = 0]
    /\ proc' = [proc EXCEPT
           ![p].pc = IF proc[p].processed + 1 >= BatchLimit(proc[p].limit)
                     THEN "returned" ELSE "select",
           ![p].processed = proc[p].processed + 1,
           ![p].row = None, ![p].entry = None]
    /\ UNCHANGED <<now, llm_responses, codegen_jobs, bot_calls>>
    /\ UNCHANGED event_vars

(* a step that flushes the entry and goes on without session.commit(): the *)
(* entry is not in the committed table and the row lock stays              *)
Commit_FlushOnly(p) ==
    /\ proc[p].pc = "commit"
    /\ proc' = [proc EXCEPT
           ![p].pc = IF proc[p].processed + 1 >= BatchLimit(proc[p].limit)
                     THEN "returned" ELSE "select",
           ![p].processed = proc[p].processed + 1,
           ![p].row = None, ![p].entry = None]
    /\ UNCHANGED <<now, tasks, task_transitions, task_details, llm_responses, codegen_jobs,
                   locks, bot_calls>>
    /\ UNCHANGED event_vars

(* a commit that stores the entry of the attempt twice *)
Commit_AppendsTwice(p) ==
    /\ proc[p].pc = "commit"
    /\ task_details' = task_details
           \o <<Detail(proc[p].row.id, "tg_delivery", proc[p].entry),
                Detail(proc[p].row.id, "tg_delivery", proc[p].entry)>>
    /\ locks' = [locks EXCEPT ![proc[p].row.id] = 0]
    /\ proc' = [proc EXCEPT
           ![p].pc = IF proc[p].processed + 1 >= BatchLimit(proc[p].limit)
                     THEN "returned" ELSE "select",
           ![p].processed = proc[p].processed + 1,
           ![p].row = None, ![p].entry = None]
    /\ UNCHANGED <<now, tasks, task_transitions, llm_responses, codegen_jobs, bot_calls>>
    /\ UNCHANGED event_vars

(* insert_task_detail and session.commit(): the entry becomes visible, the *)
(* row lock is released; the batch loop goes on or has reached its limit   *)
Commit(p) ==
    /\ proc[p].pc = "commit"
    /\ task_details' = Append(task_details,
           Detail(proc[p].row.id, "tg_delivery", proc[p].entry))
    /\ locks' = [locks EXCEPT ![proc[p].row.id] = 0]
    /\ proc' = [proc EXCEPT
           ![p].pc = IF proc[p].processed + 1 >= BatchLimit(proc[p].limit)
                     THEN "returned" ELSE "select",
           ![p].processed = proc[p].processed + 1,
           ![p].row = None, ![p].entry = None]
    /\ UNCHANGED <<now, tasks, task_transitions, llm_responses, codegen_jobs, bot_calls>>
    /\ UNCHANGED event_vars

(* process_core_<kind>_notifications has returned proc[p].processed *)
Return(p) ==
    /\ proc[p].pc = "returned"
    /\ proc' = [proc EXCEPT ![p] = Idle]
    /\ UNCHANGED <<now, tasks, task_transitions, task_details, llm_responses,
                   codegen_jobs, locks, bot_calls>>
    /\ UNCHANGED event_vars

Dispatcher(P, K) ==
    \/ \E p \in P, kind \in K, limit \in 1..MaxLimit : StartBatch(p, kind, limit)
    \/ \E p \in P : SelectNone(p)
    \/ \E p \in P : \E row \in Selector(proc[p].kind), outcome \in SendOutcomes :
          ProcessItem(p, row, outcome)
    \/ \E p \in P : Commit(p)
    \/ \E p \in P : Return(p)

---------------------------------------------------------------------------
(* Spec: the waiting_user processor, run by concurrent dispatcher          *)
(* processes, and the orchestrator asking for clarifications               *)

Init == EngineInit({QuestionInput}) /\ EventInit

Next ==
    \/ \E t \in Tasks : OrchTransition(t, "WAITING_USER")
    \/ \E t \in Tasks : OrchLlmResult(t, ClarifyResult(LlmResultCount + 1))
    \/ Dispatcher(Procs, {"waiting_user"})

Spec == Init /\ [][Next]_vars

(* SpecCodegen: the codegen processor *)
NextCodegen ==
    \/ \E t \in Tasks : OrchCodegenResult(t)
    \/ Dispatcher(Procs, {"codegen"})

SpecCodegen == Init /\ [][NextCodegen]_vars

(* SpecNeedsReview: the needs_review processor; a task enters NEEDS_REVIEW, *)
(* is sent back to RUNNING and enters it again                              *)
NextNeedsReview ==
    \/ \E t \in Tasks, to \in {"NEEDS_REVIEW", "RUNNING"} : OrchTransition(t, to)
    \/ Dispatcher(Procs, {"needs_review"})

SpecNeedsReview == Init /\ [][NextNeedsReview]_vars

(* SpecDone: the done processor of one dispatcher process, with time    *)
(* passing between its cycles                                              *)
InitDone == EngineInit({QuestionInput, TaskInput}) /\ EventInit

NextDone ==
    \/ \E t \in Tasks : OrchTransition(t, "DONE")
    \/ \E t \in Tasks, c \in {AnswerResult(LlmResultCount + 1),
                              ClarifyResult(LlmResultCount + 1)} : OrchLlmResult(t, c)
    \/ \E t \in Tasks : OrchCodegenResult(t)
    \/ Tick
    \/ Dispatcher({1}, {"done"})

SpecDone == InitDone /\ [][NextDone]_vars

---------------------------------------------------------------------------
(* The delivery ledger, as the claims read it *)

LedgerRows == {i \in DetailIds : task_details[i].kind = "tg_delivery"}

Entry(i) == task_details[i].content

(* the idempotency correlation key recorded in an entry or a send *)
KeyOf(c) == <<c.task_id, c.message_kind, c.transition_id, c.llm_request_id,
              c.codegen_detail_id>>

KeyRows(k) == {i \in LedgerRows : KeyOf(Entry(i)) = k}

Keys == {KeyOf(Entry(i)) : i \in LedgerRows}

Calls(k) == {j \in 1..Len(bot_calls) : KeyOf(bot_calls[j]) = k}

OkCalls(k) == {j \in Calls(k) : bot_calls[j].outcome = "ok"}

SentRows(k) == {i \in KeyRows(k) : Entry(i).status = "sent"}

(* position of row i among the rows of its key, in id order *)
Position(i) == Cardinality({j \in KeyRows(KeyOf(Entry(i))) : j <= i})

(* an entry after which the key must not be attempted again *)
Terminal(e) == e.status = "sent" \/ (e.status = "failed" /\ ~e.retryable)

(* an external fact of the task recorded after detail row i *)
NewFactAfter(t, i) ==
    \E j \in DetailIds : j > i /\ task_details[j].task_id = t
                               /\ task_details[j].kind # "tg_delivery"

InFlight(p) == proc[p].pc = "commit"

---------------------------------------------------------------------------
(* C1 (as claimed): once a status=sent entry exists for a correlation key *)
(* and no new external fact has been recorded for the task since, no       *)
(* dispatcher cycle processes an item for that key again: no send, and     *)
(* nothing counted as processed.                                           *)
C1_NoResendOnceSent ==
    \A p \in Procs : InFlight(p) =>
        \A i \in SentRows(KeyOf(proc[p].entry)) : NewFactAfter(proc[p].row.id, i)

(* C2 (as claimed): per correlation key at most one successful send and at *)
(* most one status=sent ledger entry, whatever the interleaving of the     *)
(* dispatcher processes.                                                   *)
C2_AtMostOneSentPerKey ==
    /\ \A k \in Keys : Cardinality(SentRows(k)) <= 1
    /\ \A j \in 1..Len(bot_calls) : Cardinality(OkCalls(KeyOf(bot_calls[j]))) <= 1

(* C3: from the selector's claim of a task row until the commit, the row   *)
(* lock is held by the claiming process and no other process has an item   *)
(* of that task in flight; the attempts of one correlation key are         *)
(* sequential: each entry's attempt_no is its position among the key's     *)
(* entries.                                                                *)
C3_MutualExclusion ==
    /\ \A p \in Procs : InFlight(p) => locks[proc[p].row.id] = p
    /\ \A p, q \in Procs : (p # q /\ InFlight(p) /\ InFlight(q))
                              => proc[p].row.id # proc[q].row.id
    /\ \A i \in LedgerRows : Entry(i).attempt_no = Position(i)

(* two processes hold items of different tasks at once: the second one     *)
(* skipped the locked, older row                                           *)
C3_Witness ==
    \E p, q \in Procs :
        /\ InFlight(p) /\ InFlight(q)
        /\ proc[p].row.transition_id < proc[q].row.transition_id

(* C4 (as claimed): every status=sent waiting_user entry of a task carries *)
(* the llm_request_id of one of its clarification rounds, no round has two *)
(* sent entries or two delivered messages, and the sent entries are in     *)
(* llm_request_id order.                                                   *)
Rounds(t) ==
    {task_details[i].content.llm_request_id : i \in
        {j \in IdsOf(t, "llm_result") : task_details[j].content.clarify_question # Null}}

WaitingUserSent(t) ==
    {i \in LedgerRows : /\ Entry(i).task_id = t
                        /\ Entry(i).message_kind = "waiting_user"
                        /\ Entry(i).status = "sent"}

C4_OneMessagePerRound ==
    \A t \in Tasks :
        /\ \A i \in WaitingUserSent(t) : Entry(i).llm_request_id \in Rounds(t)
        /\ \A i, j \in WaitingUserSent(t) :
              i < j => Entry(i).llm_request_id < Entry(j).llm_request_id
        /\ Cardinality({j \in 1..Len(bot_calls) :
                           /\ bot_calls[j].task_id = t
                           /\ bot_calls[j].message_kind = "waiting_user"
                           /\ bot_calls[j].outcome = "ok"})
              <= Cardinality(Rounds(t))

(* C10 (as claimed): once a key has a terminal entry (sent, or failed and  *)
(* not retryable) it is never selected again: no later entry of the key    *)
(* follows it and no item of the key is in flight.                         *)
C10_TerminalIsFinal ==
    /\ \A i, j \in LedgerRows :
          (i < j /\ KeyOf(Entry(i)) = KeyOf(Entry(j))) => ~Terminal(Entry(i))
    /\ \A p \in Procs : InFlight(p) =>
          \A i \in KeyRows(KeyOf(proc[p].entry)) : ~Terminal(Entry(i))

---------------------------------------------------------------------------
(* Final notifications (done) *)

FinalKeys == {k \in Keys : k[2] = "final"}

FinalRows == {i \in LedgerRows : Entry(i).message_kind = "final"}

(* the row of the key just before row i, in id order *)
PrevRow(i) == MaxOf({j \in KeyRows(KeyOf(Entry(i))) : j < i})

(* C5: a final key whose first attempt failed retryably is attempted again *)
(* only once its next_attempt_at has come, the new entry has attempt_no    *)
(* one above the previous one (2 after the first failure), and when an     *)
(* attempt is recorded as sent the key has had exactly one send per        *)
(* recorded attempt, exactly one of them successful.                       *)
C5_RetryAfterFailure ==
    \A i \in FinalRows :
        LET e == Entry(i)
            n == Position(i)
        IN  /\ e.attempt_no = n
            /\ n >= 2 =>
                 LET prev == Entry(PrevRow(i))
                 IN  /\ prev.status = "failed" /\ prev.retryable
                     /\ prev.attempt_no = n - 1
                     /\ prev.next_attempt_at # NullInt
                     /\ prev.next_attempt_at <= e.last_attempt_at
            /\ e.status = "sent" =>
                 /\ Cardinality(OkCalls(KeyOf(e))) = 1
                 /\ Cardinality(Calls(KeyOf(e))) = n

(* a failed, retryable first attempt followed by a sent second attempt *)
C5_Witness ==
    \E i, j \in FinalRows :
        /\ KeyOf(Entry(i)) = KeyOf(Entry(j))
        /\ Entry(i).attempt_no = 1 /\ Entry(i).status = "failed" /\ Entry(i).retryable
        /\ Entry(j).attempt_no = 2 /\ Entry(j).status = "sent"
        /\ Cardinality(Calls(KeyOf(Entry(j)))) = 2

(* the facts a done question notification is formed from are all there *)
QuestionFactsComplete(t) ==
    /\ extract_chat_id(get_raw_input(t)) # NullInt
    /\ get_raw_input(t).kind = "question"
    /\ extract_question_text(get_raw_input(t)) # Null
    /\ extract_answer_text(get_latest_llm_result(t)) # Null

(* The state part of C6: a DONE task without llm_result or codegen_result  *)
(* is not notified:                                                        *)
(* no item of it is taken, no send is made and a cycle over such tasks     *)
(* returns 0; an item taken for a question task whose facts are complete   *)
(* is sent as the question/answer message; and a final key gets at most    *)
(* one successful send and one sent entry.                                 *)
C6_WaitsForArtifact ==
    /\ \A t \in Tasks : ~HasDoneArtifact(t) =>
          /\ \A p \in Procs : InFlight(p) => proc[p].row.id # t
          /\ \A j \in 1..Len(bot_calls) : bot_calls[j].task_id # t
          /\ \A i \in FinalRows : Entry(i).task_id # t
    /\ (\A t \in Tasks : ~HasDoneArtifact(t)) =>
          \A p \in Procs : proc[p].processed = 0
    /\ \A k \in FinalKeys : Cardinality(SentRows(k)) <= 1 /\ Cardinality(OkCalls(k)) <= 1

(* The step part of C6, taking the item: with complete facts the send carries *)
(* the question and the answer.                                            *)
C6_SendsQuestionAnswer ==
    [][\A p \in Procs : \A t \in Tasks :
          (/\ proc[p].pc = "select" /\ proc[p].kind = "done"
           /\ proc'[p].pc = "commit" /\ proc'[p].row.id = t
           /\ QuestionFactsComplete(t))
          => /\ Len(bot_calls') = Len(bot_calls) + 1
             /\ bot_calls'[Len(bot_calls')].text =
                   format_message(t, extract_question_text(get_raw_input(t)),
                                  extract_answer_text(get_latest_llm_result(t)))
             /\ bot_calls'[Len(bot_calls')].chat_id = extract_chat_id(get_raw_input(t))
             /\ bot_calls'[Len(bot_calls')].message_kind = "final"]_vars

C7_NoEntryWithoutMessage ==
    \A i \in FinalRows :
        ~(/\ Entry(i).error = "missing chat_id/text"
          /\ extract_chat_id(get_raw_input(Entry(i).task_id)) # NullInt)

---------------------------------------------------------------------------
(* Event inbox *)

NextEvents ==
    \/ \E s \in Sessions : \E m \in MessageIds : \E name \in CommandNames :
          insert_event(s, "telegram", ExternalId(ChatId, m), CommandPayload(name, m))
    \/ \E s \in Sessions : SessionCommit(s)
    \/ \E s \in Sessions : SessionRollback(s)

SpecEvents == Init /\ [][NextEvents]_vars

(* C8: the events table never holds two rows with the same                 *)
(* (source, external_id), whatever their payload hashes, under repeated    *)
(* and concurrent insert_event calls.                                      *)
C8_OneRowPerPair ==
    \A i, j \in 1..Len(events) :
        SamePair(events[i], events[j].source, events[j].external_id) => i = j

(* an insert of an existing pair with another payload hash was made and    *)
(* the table still holds the one row                                       *)
C8_Witness ==
    \E s \in Sessions : \E i \in 1..Len(events) :
        /\ sess[s].call # None
        /\ SamePair(events[i], sess[s].call.source, sess[s].call.external_id)
        /\ sess[s].call.payload_hash # events[i].payload_hash
        /\ ~sess[s].call.ok

(* C9 (as claimed): every insert_event call completes without an error and *)
(* returns a row id, also when the pair already exists.                    *)
C9_InsertReturnsRowId ==
    \A s \in Sessions : sess[s].call # None => sess[s].call.ok

---------------------------------------------------------------------------
(* Delayed retry and the retry cap *)

(* the latest committed entry of key k, None when the key has none *)
LatestEntry(k) == IF KeyRows(k) = {} THEN None ELSE Entry(MaxOf(KeyRows(k)))

(* C11 (as claimed): a key whose latest entry is failed and retryable is   *)
(* not selected, and no attempt is made for it, before that entry's        *)
(* next_attempt_at.                                                        *)
C11_NoAttemptBeforeNextAttemptAt ==
    \A p \in Procs : InFlight(p) =>
        LET last == LatestEntry(KeyOf(proc[p].entry))
        IN  (last # None /\ last.status = "failed" /\ last.retryable)
               => last.next_attempt_at <= proc[p].entry.last_attempt_at

(* SpecUnreachable: one dispatcher process, the waiting_user processor, and *)
(* a recipient for whom every send fails with a retryable error; the      *)
(* ledger may grow one entry past the attempt ceiling                     *)
MaxLedgerUnreachable == TG_DELIVERY_MAX_ATTEMPTS + 1

NextUnreachable ==
    \/ \E t \in Tasks : OrchTransition(t, "WAITING_USER")
    \/ \E t \in Tasks : OrchLlmResult(t, ClarifyResult(LlmResultCount + 1))
    \/ \E limit \in 1..MaxLimit : StartBatch(1, "waiting_user", limit)
    \/ SelectNone(1)
    \/ \E row \in Selector(proc[1].kind) : \E outcome \in {"transient", "ok"} :
          /\ outcome = "ok" => ~WillSend(ProcessOne(proc[1].kind, row))
          /\ ProcessItemWithin(1, row, outcome, MaxLedgerUnreachable)
    \/ Commit(1)
    \/ Return(1)

SpecUnreachable == Init /\ [][NextUnreachable]_vars

(* an entry written when the attempt ceiling or the retry window was hit *)
RetryCapReached(e) == e.error = "tg down (retry cap reached)"

(* C12 (as claimed): when every send fails, a key gets at most             *)
(* TG_DELIVERY_MAX_ATTEMPTS send attempts, and no send follows an entry    *)
(* written when the cap or the window was exhausted.                       *)
C12_AttemptsCapped ==
    /\ \A j \in 1..Len(bot_calls) :
          Cardinality(Calls(KeyOf(bot_calls[j]))) <= TG_DELIVERY_MAX_ATTEMPTS
    /\ \A p \in Procs : (InFlight(p) /\ proc[p].entry.error # "missing chat_id/text") =>
          \A i \in KeyRows(KeyOf(proc[p].entry)) : ~RetryCapReached(Entry(i))

---------------------------------------------------------------------------
(* SpecAllKinds: one dispatcher process running all six processors over    *)
(* tasks the orchestrator moves through the notified statuses              *)

NotifiedStatuses == {KindStatus(k) : k \in Kinds \ {"codegen"}}

NextAllKinds ==
    \/ \E t \in Tasks, to \in NotifiedStatuses : OrchTransition(t, to)
    \/ \E t \in Tasks, c \in {AnswerResult(LlmResultCount + 1),
                              ClarifyResult(LlmResultCount + 1)} : OrchLlmResult(t, c)
    \/ \E t \in Tasks : OrchCodegenResult(t)
    \/ Dispatcher({1}, Kinds)

SpecAllKinds == Init /\ [][NextAllKinds]_vars

(* a step of a dispatcher process *)
DispatcherStep == proc' # proc

(* C13: a step of a notification processor leaves every task's status and  *)
(* the transition log as they were; what it writes is at most one appended *)
(* task_details row, of kind tg_delivery.                                  *)
C13_ProcessorsKeepStatus ==
    [][DispatcherStep =>
          /\ tasks' = tasks
          /\ task_transitions' = task_transitions
          /\ llm_responses' = llm_responses /\ codegen_jobs' = codegen_jobs
          /\ \/ task_details' = task_details
             \/ /\ Len(task_details') = Len(task_details) + 1
                /\ SubSeq(task_details', 1, Len(task_details)) = task_details
                /\ task_details'[Len(task_details')].kind = "tg_delivery"]_vars

(* notifications of two different kinds have been delivered and recorded *)
C13_Witness ==
    \E i, j \in LedgerRows :
        /\ Entry(i).message_kind # Entry(j).message_kind
        /\ Entry(i).status = "sent" /\ Entry(j).status = "sent"
        /\ tasks[Entry(j).task_id].status = Entry(j).to_status

(* the kinds correlated by transition id *)
TransitionKinds == {"done", "failed", "stopped"}

(* SpecTerminal: the done, failed and stopped processors over tasks that   *)
(* reach a terminal status                                                 *)
NextTerminal ==
    \/ \E t \in Tasks, to \in {KindStatus(k) : k \in TransitionKinds} : OrchTransition(t, to)
    \/ \E t \in Tasks : OrchLlmResult(t, AnswerResult(LlmResultCount + 1))
    \/ Dispatcher({1}, TransitionKinds)

SpecTerminal == Init /\ [][NextTerminal]_vars

(* C17: an item of the done / failed / stopped processor is held only for  *)
(* a task whose status is DONE / FAILED / STOPPED_BY_USER, for its latest  *)
(* transition into that status, and only while that transition has no sent *)
(* entry; every entry written carries that transition id and to_status.    *)
C17_SelectedByStatusAndTransition ==
    /\ \A p \in Procs : (InFlight(p) /\ proc[p].kind \in TransitionKinds) =>
          LET t == proc[p].row.id
              st == KindStatus(proc[p].kind)
              e == proc[p].entry
          IN  /\ tasks[t].status = st
              /\ proc[p].row.transition_id = LatestTransitionId(t, st)
              /\ proc[p].row.transition_id # NullInt
              /\ SentRows(KeyOf(e)) = {}
              /\ e.transition_id = proc[p].row.transition_id
              /\ e.to_status = st
              /\ e.message_kind = MessageKind(proc[p].kind)
    /\ \A i \in LedgerRows :
          \A k \in TransitionKinds : Entry(i).message_kind = MessageKind(k) =>
              /\ Entry(i).to_status = KindStatus(k)
              /\ Entry(i).transition_id \in 1..Len(task_transitions)
              /\ task_transitions[Entry(i).transition_id].task_id = Entry(i).task_id
              /\ task_transitions[Entry(i).transition_id].to_status = KindStatus(k)

(* a failed notification has been delivered for the FAILED transition *)
C17_Witness ==
    \E i \in LedgerRows :
        /\ Entry(i).message_kind = "failed" /\ Entry(i).status = "sent"
        /\ Entry(i).to_status = "FAILED"
        /\ task_transitions[Entry(i).transition_id].to_status = "FAILED"

---------------------------------------------------------------------------
(* transition_task: the compare-and-swap of the legacy delivery path *)

(* lock holder id of a handler session (dispatcher processes are 1..NumProcs) *)
SessionLock(s) == NumProcs + s

TransitionRow(task_id, from_status, to_status, reason) ==
    [task_id |-> task_id, from_status |-> from_status, to_status |-> to_status,
     reason |-> reason]

(* what transition_task returned to the session *)
TransitionResult(result, task_id, from_status, to_status, reason) ==
    [fn |-> "transition_task", result |-> result, task_id |-> task_id,
     from_status |-> from_status, to_status |-> to_status, reason |-> reason]

(* an update that does not compare the current status *)
transition_task_Blind(s, task_id, from_status, to_status, reason) ==
    /\ sess[s].pc = "idle"
    /\ locks[task_id] = 0
    /\ tasks' = [tasks EXCEPT ![task_id] = [status |-> to_status, updated_at |-> now]]
    /\ task_transitions' = Append(task_transitions,
           TransitionRow(task_id, from_status, to_status, reason))
    /\ locks' = [locks EXCEPT ![task_id] = SessionLock(s)]
    /\ sess' = [sess EXCEPT ![s].pc = "open",
           ![s].call = TransitionResult(TRUE, task_id, from_status, to_status, reason)]
    /\ UNCHANGED <<now, task_details, llm_responses, codegen_jobs, proc, bot_calls,
                   events, event_seq>>

(* a compare that does not wait for the row lock: it reads the status as   *)
(* of the last commit and then writes                                     *)
transition_task_Snapshot(s, task_id, from_status, to_status, reason) ==
    /\ sess[s].pc = "idle"
    /\ LET holder == locks[task_id] - NumProcs
           committed == IF holder \in Sessions /\ sess[holder].call # None
                        THEN sess[holder].call.from_status
                        ELSE tasks[task_id].status
           hit == committed = from_status
       IN  /\ tasks' = IF hit
                       THEN [tasks EXCEPT ![task_id] =
                                [status |-> to_status, updated_at |-> now]]
                       ELSE tasks
           /\ task_transitions' =
                 IF hit THEN Append(task_transitions,
                                    TransitionRow(task_id, from_status, to_status, reason))
                 ELSE task_transitions
           /\ locks' = IF hit THEN [locks EXCEPT ![task_id] = SessionLock(s)] ELSE locks
           /\ sess' = [sess EXCEPT ![s].pc = "open",
                  ![s].call = TransitionResult(hit, task_id, from_status, to_status, reason)]
    /\ UNCHANGED <<now, task_details, llm_responses, codegen_jobs, proc, bot_calls,
                   events, event_seq>>

(* WITH updated AS (UPDATE tasks SET status = :to WHERE id = :id AND       *)
(* status = :from RETURNING id) INSERT INTO task_transitions ... FROM      *)
(* updated RETURNING task_id.  The UPDATE waits for a locked row and then  *)
(* compares the committed status; the updated row stays locked until the   *)
(* session commits.                                                        *)
transition_task(s, task_id, from_status, to_status, reason) ==
    /\ sess[s].pc = "idle"
    /\ locks[task_id] = 0
    /\ LET hit == tasks[task_id].status = from_status
       IN  /\ tasks' = IF hit
                       THEN [tasks EXCEPT ![task_id] =
                                [status |-> to_status, updated_at |-> now]]
                       ELSE tasks
           /\ task_transitions' =
                 IF hit THEN Append(task_transitions,
                                    TransitionRow(task_id, from_status, to_status, reason))
                 ELSE task_transitions
           /\ locks' = IF hit THEN [locks EXCEPT ![task_id] = SessionLock(s)] ELSE locks
           /\ sess' = [sess EXCEPT ![s].pc = "open",
                  ![s].call = TransitionResult(hit, task_id, from_status, to_status, reason)]
    /\ UNCHANGED <<now, task_details, llm_responses, codegen_jobs, proc, bot_calls,
                   events, event_seq>>

(* the session of the caller commits: its row locks are released *)
TransitionCommit(s) ==
    /\ sess[s].pc = "open"
    /\ sess[s].call # None /\ sess[s].call.fn = "transition_task"
    /\ locks' = [t \in Tasks |-> IF locks[t] = SessionLock(s) THEN 0 ELSE locks[t]]
    /\ sess' = [sess EXCEPT ![s] = NoTxn]
    /\ UNCHANGED <<engine_vars, proc, bot_calls, events, event_seq>>

(* SpecTransition: the orchestrator hands tasks over (SEND_TO_USER) and    *)
(* concurrent sessions close them with transition_task                     *)
NextTransition ==
    \/ \E t \in Tasks : OrchTransition(t, "SEND_TO_USER")
    \/ \E s \in Sessions, t \in Tasks, to \in {"DONE", "FAILED"} :
          transition_task(s, t, "SEND_TO_USER", to, "delivered")
    \/ \E s \in Sessions : TransitionCommit(s)

SpecTransition == Init /\ [][NextTransition]_vars

(* the transition rows of task t, in id order *)
TransitionsOf(t) == SelectSeq(task_transitions, LAMBDA r : r.task_id = t)

(* the log of every task is a chain from its first status to its current one *)
TransitionLogIsChain ==
    \A t \in Tasks :
        LET log == TransitionsOf(t)
        IN  /\ \A k \in 1..Len(log) :
                  log[k].from_status = IF k = 1 THEN "RUNNING" ELSE log[k - 1].to_status
            /\ tasks[t].status = IF log = <<>> THEN "RUNNING" ELSE log[Len(log)].to_status

(* a step in which session s gets the result of transition_task *)
TransitionTaskStep(s) ==
    sess[s].pc = "idle" /\ sess'[s].pc = "open" /\ sess'[s].call.fn = "transition_task"

TransitionTaskIsCas ==
    \A s \in Sessions : TransitionTaskStep(s) =>
        LET c == sess'[s].call
            t == c.task_id
        IN  /\ c.result = (tasks[t].status = c.from_status)
            /\ c.result =>
                 /\ tasks'[t].status = c.to_status
                 /\ \A u \in Tasks \ {t} : tasks'[u] = tasks[u]
                 /\ task_transitions' = Append(task_transitions,
                        TransitionRow(t, c.from_status, c.to_status, c.reason))
            /\ ~c.result => tasks' = tasks /\ task_transitions' = task_transitions

(* C14: transition_task returns true iff the task's status equals          *)
(* from_status when it executes; on true the status becomes to_status and  *)
(* exactly one transition row (from_status, to_status) of the task is      *)
(* appended in the same step; on false the task rows and the transition    *)
(* log are unchanged.  Under concurrent callers the log of each task stays *)
(* a chain ending in its current status.                                   *)
C14_TransitionTaskIsAtomicCas == []TransitionLogIsChain /\ [][TransitionTaskIsCas]_vars

(* two sessions called transition_task for the same task: one call found   *)
(* the expected status and returned true, the other returned false         *)
C14_Witness ==
    \E s, o \in Sessions :
        /\ s # o
        /\ sess[s].call # None /\ sess[o].call # None
        /\ sess[s].call.result /\ ~sess[o].call.result
        /\ sess[s].call.task_id = sess[o].call.task_id

---------------------------------------------------------------------------
(* Notification per occurrence: NEEDS_REVIEW transitions, codegen results *)

SentOf(t, message_kind) ==
    {i \in LedgerRows : /\ Entry(i).task_id = t
                        /\ Entry(i).message_kind = message_kind
                        /\ Entry(i).status = "sent"}

DeliveredOf(t, message_kind) ==
    {j \in 1..Len(bot_calls) : /\ bot_calls[j].task_id = t
                               /\ bot_calls[j].message_kind = message_kind
                               /\ bot_calls[j].outcome = "ok"}

(* C15 (as claimed): a NEEDS_REVIEW transition is notified once: it has at *)
(* most one status=sent review_needed entry and at most one delivered      *)
(* message, however many cycles run.                                       *)
C15_OncePerNeedsReviewTransition ==
    \A t \in Tasks : \A tr \in 1..Len(task_transitions) :
        /\ Cardinality({i \in SentOf(t, "review_needed") :
                           Entry(i).transition_id = tr}) <= 1
        /\ Cardinality({j \in DeliveredOf(t, "review_needed") :
                           bot_calls[j].transition_id = tr}) <= 1

(* C16 (as claimed): every status=sent codegen entry is correlated to a    *)
(* codegen_result detail of its task by codegen_detail_id, a detail has at *)
(* most one sent entry, and a task gets no more codegen messages than it   *)
(* has codegen_result details.                                             *)
C16_OncePerCodegenResult ==
    \A t \in Tasks :
        /\ \A i \in SentOf(t, "codegen") :
              Entry(i).codegen_detail_id \in IdsOf(t, "codegen_result")
        /\ \A i, j \in SentOf(t, "codegen") :
              Entry(i).codegen_detail_id = Entry(j).codegen_detail_id => i = j
        /\ Cardinality(DeliveredOf(t, "codegen")) <= Cardinality(IdsOf(t, "codegen_result"))

---------------------------------------------------------------------------
(* Faults: an exception inside a cycle, a killed dispatcher process *)

(* the transaction of p ends without commit: its row locks are released *)
Rollback(p) == [t \in Tasks |-> IF locks[t] = p THEN 0 ELSE locks[t]]

(* sends whose ledger entry was never persisted *)
LostAttempts ==
    Len(bot_calls)
    - Cardinality({i \in LedgerRows : Entry(i).error # "missing chat_id/text"})
    - Cardinality({p \in Procs : InFlight(p) /\ proc[p].entry.error # "missing chat_id/text"})

FaultAllowed(p) ==
    \/ proc[p].pc = "select"
    \/ proc[p].pc = "commit" /\ proc[p].entry.error = "missing chat_id/text"
    \/ proc[p].pc = "commit" /\ LostAttempts < MaxFaults

(* an exception that is not caught: run_loop ends *)
Raise_Escapes(p) ==
    /\ FaultAllowed(p)
    /\ locks' = Rollback(p)
    /\ proc' = [proc EXCEPT ![p] = [Idle EXCEPT !.pc = "terminated"]]
    /\ UNCHANGED <<now, tasks, task_transitions, task_details, llm_responses,
                   codegen_jobs, bot_calls>>
    /\ UNCHANGED event_vars

(* a selector, a read, insert_task_detail or session.commit() raises: the  *)
(* except clause of run_loop logs it, the session is closed without commit *)
Raise(p) ==
    /\ FaultAllowed(p)
    /\ locks' = Rollback(p)
    /\ proc' = [proc EXCEPT ![p] = [Idle EXCEPT !.pc = "caught"]]
    /\ UNCHANGED <<now, tasks, task_transitions, task_details, llm_responses,
                   codegen_jobs, bot_calls>>
    /\ UNCHANGED event_vars

(* asyncio.sleep(poll_seconds) is over: the next iteration of while True *)
Resume(p) ==
    /\ proc[p].pc = "caught"
    /\ proc' = [proc EXCEPT ![p] = Idle]
    /\ UNCHANGED <<now, tasks, task_transitions, task_details, llm_responses,
                   codegen_jobs, locks, bot_calls>>
    /\ UNCHANGED event_vars

(* a kill after which the store keeps the dead connection's row locks *)
Kill_KeepsLock(p) ==
    /\ proc[p].pc = "commit"
    /\ proc[p].entry.error = "missing chat_id/text" \/ LostAttempts < MaxFaults
    /\ proc' = [proc EXCEPT ![p] = [Idle EXCEPT !.pc = "killed"]]
    /\ UNCHANGED <<now, tasks, task_transitions, task_details, llm_responses,
                   codegen_jobs, locks, bot_calls>>
    /\ UNCHANGED event_vars

(* the process is killed between the selector's claim and the commit: the  *)
(* connection closes, the open transaction is rolled back                  *)
Kill(p) ==
    /\ proc[p].pc = "commit"
    /\ proc[p].entry.error = "missing chat_id/text" \/ LostAttempts < MaxFaults
    /\ locks' = Rollback(p)
    /\ proc' = [proc EXCEPT ![p] = [Idle EXCEPT !.pc = "killed"]]
    /\ UNCHANGED <<now, tasks, task_transitions, task_details, llm_responses,
                   codegen_jobs, bot_calls>>
    /\ UNCHANGED event_vars

(* the dispatcher process is started again *)
Restart(p) ==
    /\ proc[p].pc = "killed"
    /\ proc' = [proc EXCEPT ![p] = Idle]
    /\ UNCHANGED <<now, tasks, task_transitions, task_details, llm_responses,
                   codegen_jobs, locks, bot_calls>>
    /\ UNCHANGED event_vars

(* SpecFaults: the done processor of one dispatcher process, with          *)
(* exceptions inside the cycle and kills of the process                    *)
NextFaults ==
    \/ \E t \in Tasks : OrchTransition(t, "DONE")
    \/ \E t \in Tasks : OrchLlmResult(t, AnswerResult(LlmResultCount + 1))
    \/ Dispatcher({1}, {"done"})
    \/ Raise(1)
    \/ Resume(1)
    \/ Kill(1)
    \/ Restart(1)

SpecFaults == Init /\ [][NextFaults]_vars

(* C18: an exception raised in a cycle never ends run_loop: the process is *)
(* either inside a cycle, between cycles, or in the except clause, where   *)
(* it holds no row lock and nothing of the failed item is persisted; from  *)
(* there its next step is the start of a new iteration.                    *)
C18_LoopSurvivesExceptions ==
    /\ [](\A p \in Procs :
            /\ proc[p].pc \in {"idle", "select", "commit", "returned", "caught", "killed"}
            /\ proc[p].pc = "caught" =>
                  /\ \A t \in Tasks : locks[t] # p
                  /\ proc[p].entry = None)
    /\ [][\A p \in Procs :
            /\ (proc[p].pc \in {"select", "commit"} /\ proc'[p].pc = "caught")
                  => task_details' = task_details
            /\ (proc[p].pc = "caught" /\ proc'[p] # proc[p]) => proc'[p] = Idle]_vars

(* an exception was caught after the message had gone out: the send has no *)
(* ledger entry                                                            *)
C18_Witness ==
    /\ proc[1].pc = "caught"
    /\ LostAttempts = 1

(* the task of the item p holds satisfies the done selector's predicate *)
(* once its row is unlocked                                             *)
StillEligible(t, transition_id) ==
    /\ tasks[t].status = "DONE"
    /\ LatestTransitionId(t, "DONE") = transition_id
    /\ HasDoneArtifact(t)
    /\ LedgerAllowsSelect(t, "final", transition_id)

(* C19: when the process is killed while it holds an item, no ledger entry *)
(* of that attempt is persisted, the row lock is released, and the task    *)
(* still satisfies the selector, so a later cycle selects and attempts it  *)
(* again.                                                                  *)
C19_CrashRecovery ==
    /\ [](\A p \in Procs : proc[p].pc = "killed" => \A t \in Tasks : locks[t] # p)
    /\ [][\A p \in Procs, t \in Tasks, tr \in 1..Len(task_transitions) :
            (/\ InFlight(p)
             /\ proc[p].row.id = t
             /\ proc[p].row.transition_id = tr
             /\ proc'[p].pc = "killed") =>
                /\ task_details' = task_details
                /\ locks'[t] = 0
                /\ StillEligible(t, tr)'
                /\ t \in {r.id : r \in TransitionSelector("done")'}
                     \/ \E u \in Tasks \ {t} : tasks'[u].updated_at <= tasks'[t].updated_at]_vars

(* after a kill that lost a delivered message, the task was attempted      *)
(* again and the new attempt is recorded as the first one                  *)
C19_Witness ==
    \E i \in FinalRows :
        /\ Entry(i).status = "sent" /\ Entry(i).attempt_no = 1
        /\ Cardinality(Calls(KeyOf(Entry(i)))) = 2
        /\ proc[1].pc = "idle"

---------------------------------------------------------------------------
(* LLM results of every purpose *)

Purposes == UserFacingPurposes \cup {"question_review"}

(* what the orchestrator stores under each purpose: the first answer, a   *)
(* retried or reworked answer, or the verdict of an internal review        *)
AnswerOf(purpose) ==
    CASE purpose = "question_review" -> "{type:approve}"
      [] purpose = "json_retry" -> "Retried."
      [] purpose = "question_rework" -> "Reworked."
      [] purpose = "question_review_limit" -> "Last."
      [] OTHER -> "Because."

PurposeResult(rid, purpose) ==
    [llm_request_id |-> rid, answer |-> AnswerOf(purpose), clarify_question |-> Null,
     purpose |-> purpose, error |-> Null]

OrchPurposeResult(t, purpose) ==
    /\ LlmResultCount < MaxResults
    /\ task_details' = Append(task_details,
           Detail(t, "llm_result", PurposeResult(LlmResultCount + 1, purpose)))
    /\ UNCHANGED <<now, tasks, task_transitions, llm_responses, codegen_jobs, locks,
                   proc, bot_calls>>
    /\ UNCHANGED event_vars

(* SpecReview: the done processor over tasks whose llm_results carry any   *)
(* purpose, internal reviews included                                      *)
NextReview ==
    \/ \E t \in Tasks : OrchTransition(t, "DONE")
    \/ \E t \in Tasks, purpose \in Purposes : OrchPurposeResult(t, purpose)
    \/ Dispatcher({1}, {"done"})

SpecReview == Init /\ [][NextReview]_vars

LlmResultIds(t) == IdsOf(t, "llm_result")

IsUserFacing(i) ==
    \/ task_details[i].content.purpose = Null
    \/ task_details[i].content.purpose \in {"", "json_retry", "question_rework",
                                             "question_review_limit"}

(* C20: get_latest_llm_result is the content of the llm_result of the task *)
(* with the highest id among those whose purpose is absent, empty,         *)
(* json_retry, question_rework or question_review_limit, and nothing when  *)
(* there is none; a done message that went out carries the answer of such  *)
(* a result, never the one of a question_review appended later.            *)
C20_LatestUserFacingResult ==
    /\ \A t \in Tasks :
         LET r == get_latest_llm_result(t)
         IN  IF \A i \in LlmResultIds(t) : ~IsUserFacing(i)
             THEN r = None
             ELSE \E i \in LlmResultIds(t) :
                    /\ IsUserFacing(i)
                    /\ r = task_details[i].content
                    /\ \A j \in LlmResultIds(t) : j > i => ~IsUserFacing(j)
    /\ \A p \in Procs :
         (InFlight(p) /\ proc[p].kind = "done" /\ proc[p].entry.status = "sent") =>
            \A c \in Calls(KeyOf(proc[p].entry)) :
               (bot_calls[c].text.fmt \in {"qa", "done_answer"}) =>
                  /\ bot_calls[c].text.answer # AnswerOf("question_review")
                  /\ \E i \in LlmResultIds(proc[p].row.id) :
                        /\ IsUserFacing(i)
                        /\ task_details[i].content.answer = bot_calls[c].text.answer

(* an internal review was appended after the answer, and the done message  *)
(* that went out afterwards carries the answer                             *)
C20_Witness ==
    \E t \in Tasks, i, j \in DetailIds, c \in 1..Len(bot_calls) :
        /\ i < j
        /\ {i, j} \subseteq LlmResultIds(t)
        /\ task_details[i].content.purpose = Null
        /\ task_details[j].content.purpose = "question_review"
        /\ bot_calls[c].text.fmt = "qa"
        /\ bot_calls[c].text.task_id = t
        /\ bot_calls[c].text.answer = "Because."

---------------------------------------------------------------------------
(* The needs-review scenario: an LLM response with an answer and an error *)

(* the orchestrator stores the response of an LLM request in llm_responses *)
(* and the llm_result detail that references it                            *)
OrchLlmResponse(t, answer, error) ==
    /\ OrchFacts < MaxFacts
    /\ tasks[t].status = "RUNNING"
    /\ llm_responses' = Append(llm_responses,
           [id |-> Len(llm_responses) + 1, llm_request_id |-> LlmResultCount + 1,
            task_id |-> t, answer |-> answer, error |-> error])
    /\ task_details' = Append(task_details, Detail(t, "llm_result",
           [llm_request_id |-> LlmResultCount + 1, answer |-> answer,
            clarify_question |-> Null, purpose |-> Null, error |-> error]))
    /\ UNCHANGED <<now, tasks, task_transitions, codegen_jobs, locks, proc, bot_calls>>
    /\ UNCHANGED event_vars

(* SpecReviewNeeded: a task gets an LLM response, then enters NEEDS_REVIEW, *)
(* and one dispatcher process runs the needs-review processor               *)
NextReviewNeeded ==
    \/ \E t \in Tasks, answer \in {"Because.", Null}, error \in {"boom", Null} :
          OrchLlmResponse(t, answer, error)
    \/ \E t \in Tasks : IdsOf(t, "llm_result") # {} /\ OrchTransition(t, "NEEDS_REVIEW")
    \/ Dispatcher({1}, {"needs_review"})

SpecReviewNeeded == Init /\ [][NextReviewNeeded]_vars

(* the llm_responses row the task's latest llm_result references *)
ReviewResponse(t) ==
    LET r == get_latest_llm_result(t)
    IN  IF r = None THEN None ELSE get_latest_llm_response_by_request_id(r.llm_request_id)

ReviewCalls(t, tr) ==
    {j \in 1..Len(bot_calls) : /\ bot_calls[j].task_id = t
                               /\ bot_calls[j].message_kind = "review_needed"
                               /\ bot_calls[j].transition_id = tr}

(* C21 (as claimed): for a task whose latest NEEDS_REVIEW transition is T1, *)
(* whose raw_input gives chat C and whose llm_result references a response  *)
(* with both an answer and an error, every needs-review message goes to C   *)
(* and contains the answer and the error, and there is at most one message  *)
(* and at most one status=sent entry with transition_id = T1.               *)
C21_OneReviewMessageWithAnswerAndError ==
    \A t \in Tasks :
        LET tr == LatestTransitionId(t, "NEEDS_REVIEW")
            resp == ReviewResponse(t)
        IN  (tr # NullInt /\ resp # None /\ resp.answer # Null /\ resp.error # Null) =>
               /\ \A j \in ReviewCalls(t, tr) :
                     /\ bot_calls[j].chat_id = extract_chat_id(get_raw_input(t))
                     /\ bot_calls[j].text.fmt = "needs_review"
                     /\ bot_calls[j].text.answer = resp.answer
                     /\ bot_calls[j].text.llm_error = resp.error
               /\ Cardinality(ReviewCalls(t, tr)) <= 1
               /\ Cardinality({i \in SentOf(t, "review_needed") :
                                  Entry(i).transition_id = tr}) <= 1

---------------------------------------------------------------------------
(* Waiting for the user on a waiting_user_reason, without an llm_result *)

(* the waiting_user_reason detail the orchestrator appends *)
WaitingReason(question) ==
    [type |-> "review_clarify", question |-> question, llm_request_id |-> 1]

OrchWaitingReason(t, question) ==
    /\ OrchFacts < MaxFacts
    /\ task_details' = Append(task_details,
           Detail(t, "waiting_user_reason", WaitingReason(question)))
    /\ UNCHANGED <<now, tasks, task_transitions, llm_responses, codegen_jobs, locks,
                   proc, bot_calls>>
    /\ UNCHANGED event_vars

(* SpecWaitingReason: tasks enter WAITING_USER with a waiting_user_reason   *)
(* and no llm_result; one dispatcher process runs the waiting_user processor *)
InitWaitingReason == EngineInit({QuestionInput, TaskInput}) /\ EventInit

NextWaitingReason ==
    \/ \E t \in Tasks : OrchTransition(t, "WAITING_USER")
    \/ \E t \in Tasks, question \in {"Clarify?", Null} : OrchWaitingReason(t, question)
    \/ Dispatcher({1}, {"waiting_user"})

SpecWaitingReason == InitWaitingReason /\ [][NextWaitingReason]_vars

WaitingUserCalls(t) ==
    {j \in 1..Len(bot_calls) : /\ bot_calls[j].task_id = t
                               /\ bot_calls[j].message_kind = "waiting_user"}

(* C22 (as claimed): a WAITING_USER task with a chat id in its raw_input, a *)
(* waiting_user_reason with a question and no llm_result is notified        *)
(* exactly once: every message for it carries the reason's question as the  *)
(* clarification text, and it gets at most one message and at most one      *)
(* status=sent entry.                                                       *)
C22_NotifiedOnceWithReasonQuestion ==
    \A t \in Tasks :
        LET reason == get_latest_waiting_user_reason(t)
            question == extract_waiting_reason_question(reason)
        IN  (/\ tasks[t].status = "WAITING_USER"
             /\ extract_chat_id(get_raw_input(t)) # NullInt
             /\ question # Null
             /\ IdsOf(t, "llm_result") = {}) =>
               /\ \A j \in WaitingUserCalls(t) :
                     /\ bot_calls[j].chat_id = extract_chat_id(get_raw_input(t))
                     /\ bot_calls[j].text = format_clarify_message(t, question)
               /\ Cardinality(WaitingUserCalls(t)) <= 1
               /\ Cardinality(WaitingUserSent(t)) <= 1

---------------------------------------------------------------------------
(* Denormalized columns of an event *)

EventTypeValues == {JStr("user_request"), JStr(""), JInt(5)}

IdValues == {JInt(111), JStr("222"), JStr("abc"), JNull}

TgValues ==
    {JStr("x"), JObj([message_id |-> JInt(333)])}
    \cup {JObj([tg_id |-> a, chat_id |-> b, message_id |-> JInt(333)]) : a, b \in IdValues}

RequestValues == {JObj([kind |-> JStr("question")]), JObj([kind |-> JInt(1)]), JNull}

(* payloads with each of the three top-level keys present or missing *)
Payloads ==
    {[event_type |-> e, tg |-> g, request |-> r] :
        e \in EventTypeValues, g \in TgValues, r \in RequestValues}
    \cup {[tg |-> g, request |-> r] : g \in TgValues, r \in RequestValues}
    \cup {[event_type |-> e, request |-> r] : e \in EventTypeValues, r \in RequestValues}
    \cup {[event_type |-> e, tg |-> g] : e \in EventTypeValues, g \in TgValues}

(* SpecDenorm: insert_event called with payloads of every shape *)
NextDenorm ==
    \/ \E payload \in Payloads : insert_event(1, "telegram", ExternalId(ChatId, 1), payload)
    \/ SessionCommit(1)
    \/ SessionRollback(1)

SpecDenorm == Init /\ [][NextDenorm]_vars

(* the rows written so far, committed or not *)
EventRows ==
    {events[i] : i \in 1..Len(events)}
    \cup UNION {{sess[s].pending[i] : i \in 1..Len(sess[s].pending)} : s \in Sessions}

Field(f, key) == IF key \in DOMAIN f THEN f[key] ELSE JNull

Sub(f, key, sub) ==
    LET o == Field(f, key) IN IF o.t = "obj" THEN Field(o.f, sub) ELSE JNull

(* C23 (as claimed): each denormalized column equals the value at its path *)
(* of the payload, and is null when the path is missing or the value is    *)
(* not of the column's type (a string for event_type and request_kind, an  *)
(* integer for tg_id and chat_id).                                         *)
ClaimedStr(v) == IF v.t = "str" THEN v.s ELSE Null

ClaimedInt(v) == IF v.t = "int" THEN v.n ELSE NullInt

DerivedStr(v) == IF v.t = "str" /\ v.s # "" THEN v.s ELSE Null

DerivedInt(v) ==
    IF v.t = "int" THEN v.n
    ELSE IF v.t = "str" /\ v.s \in {"111", "222"} THEN DigitValue[v.s]
    ELSE NullInt

---------------------------------------------------------------------------
(* The retry cap: attempt ceiling and retry window *)

(* room for one key to reach the attempt ceiling and another to be retried *)
MaxLedgerRetryCap == TG_DELIVERY_MAX_ATTEMPTS + 2

(* the dispatcher is down, or sleeps, for a whole retry window *)
Elapse ==
    /\ \A p \in Procs : proc[p].pc = "idle"
    /\ now + TG_DELIVERY_MAX_RETRY_WINDOW_SECONDS
          <= MaxElapses * TG_DELIVERY_MAX_RETRY_WINDOW_SECONDS
    /\ now' = now + TG_DELIVERY_MAX_RETRY_WINDOW_SECONDS
    /\ UNCHANGED <<tasks, task_transitions, task_details, llm_responses, codegen_jobs,
                   locks, proc, bot_calls>>
    /\ UNCHANGED event_vars

(* the orchestrator, in one transaction, stores a clarifying question and *)
(* moves the task from RUNNING to WAITING_USER                            *)
OrchAsk(t) ==
    /\ tasks[t].status = "RUNNING"
    /\ locks[t] = 0
    /\ task_details' = Append(task_details,
           Detail(t, "llm_result", ClarifyResult(LlmResultCount + 1)))
    /\ tasks' = [tasks EXCEPT ![t] = [status |-> "WAITING_USER", updated_at |-> now]]
    /\ task_transitions' = Append(task_transitions,
           [task_id |-> t, from_status |-> "RUNNING", to_status |-> "WAITING_USER"])
    /\ UNCHANGED <<now, llm_responses, codegen_jobs, locks, proc, bot_calls>>
    /\ UNCHANGED event_vars

(* SpecRetryCap: the waiting_user processor of one dispatcher process with *)
(* recipients for whom every send fails with a retryable error, while time *)
(* passes between its cycles                                               *)
NextRetryCap ==
    \/ \E t \in Tasks : OrchAsk(t)
    \/ Elapse
    \/ StartBatch(1, "waiting_user", 1)
    \/ SelectNone(1)
    \/ \E row \in Selector(proc[1].kind) :
          ProcessItemWithin(1, row, "transient", MaxLedgerRetryCap)
    \/ Commit(1)
    \/ Return(1)

SpecRetryCap == Init /\ [][NextRetryCap]_vars

(* the entries written so far, committed or held by a process *)
AllEntries == {Entry(i) : i \in LedgerRows} \cup {proc[p].entry : p \in {q \in Procs : InFlight(q)}}

(* the send of the entry raised an exception of the retryable class *)
OtherwiseRetryable(e) == e.status = "failed" /\ e.error \in {"tg down", "tg down (retry cap reached)"}

AttemptCeilingReached(e) == e.attempt_no >= TG_DELIVERY_MAX_ATTEMPTS

RetryWindowReached(e) ==
    e.last_attempt_at - e.first_attempt_at >= TG_DELIVERY_MAX_RETRY_WINDOW_SECONDS

(* C24: an entry of a send that failed with an otherwise retryable error is *)
(* a permanent failure (retryable = false, no next_attempt_at) when its     *)
(* attempt_no has reached the attempt ceiling or the time since             *)
(* first_attempt_at has reached the retry window, and is retryable, with a  *)
(* next_attempt_at, when it is below both limits.                           *)
C24_RetryCapForcesPermanentFailure ==
    \A e \in AllEntries : OtherwiseRetryable(e) =>
        IF AttemptCeilingReached(e) \/ RetryWindowReached(e)
        THEN ~e.retryable /\ e.next_attempt_at = NullInt /\ RetryCapReached(e)
        ELSE e.retryable /\ e.next_attempt_at # NullInt /\ ~RetryCapReached(e)

(* one key was stopped by the attempt ceiling inside the window, another by *)
(* the window below the ceiling, and an earlier entry stayed retryable      *)
C24_Witness ==
    /\ \E i \in LedgerRows :
          /\ AttemptCeilingReached(Entry(i)) /\ ~RetryWindowReached(Entry(i))
          /\ OtherwiseRetryable(Entry(i)) /\ ~Entry(i).retryable
    /\ \E j \in LedgerRows :
          /\ RetryWindowReached(Entry(j)) /\ ~AttemptCeilingReached(Entry(j))
          /\ OtherwiseRetryable(Entry(j)) /\ ~Entry(j).retryable
    /\ \E k \in LedgerRows : OtherwiseRetryable(Entry(k)) /\ Entry(k).retryable

---------------------------------------------------------------------------
(* Backoff *)

(* the schedule as claimed: 10, 30, 120, 300, 900, 3600 seconds for the  *)
(* attempts 1..6 and 3600 seconds for every later attempt                 *)
ClaimedBackoff(n) ==
    CASE n = 1 -> 10
      [] n = 2 -> 30
      [] n = 3 -> 120
      [] n = 4 -> 300
      [] n = 5 -> 900
      [] OTHER -> 3600

(* C25: a retryable failure recorded at attempt_no n >= 1 has              *)
(* next_attempt_at = now + d(n), with d(n) = 10, 30, 120, 300, 900, 3600   *)
(* seconds for n = 1..6 and 3600 seconds for n > 6; d is non-decreasing.   *)
C25_BackoffSchedule ==
    /\ \A e \in AllEntries : (e.status = "failed" /\ e.retryable) =>
          /\ e.attempt_no >= 1
          /\ e.next_attempt_at = e.last_attempt_at + ClaimedBackoff(e.attempt_no)
    /\ \A n \in 1..MaxLedgerUnreachable :
          /\ delivery_backoff_seconds(n) = ClaimedBackoff(n)
          /\ delivery_backoff_seconds(n) <= delivery_backoff_seconds(n + 1)

(* retryable failures were recorded at a late attempt, with the clamped    *)
(* interval, and at the sixth, the last of the table                       *)
C25_Witness ==
    /\ \E i \in LedgerRows :
          /\ Entry(i).retryable /\ Entry(i).attempt_no = 9
          /\ Entry(i).next_attempt_at = Entry(i).last_attempt_at + 3600
    /\ \E j \in LedgerRows :
          /\ Entry(j).retryable /\ Entry(j).attempt_no = 5
          /\ Entry(j).next_attempt_at = Entry(j).last_attempt_at + 900

---------------------------------------------------------------------------
(* Attempt numbering per correlation key *)

(* the orchestrator moves a task into NEEDS_REVIEW, back to RUNNING and    *)
(* into NEEDS_REVIEW again                                                 *)
OrchReviewCycle(t, to) ==
    /\ Len(task_transitions) < MaxTransitions
    /\ tasks[t].status # to
    /\ locks[t] = 0
    /\ tasks' = [tasks EXCEPT ![t] = [status |-> to, updated_at |-> now]]
    /\ task_transitions' = Append(task_transitions,
           [task_id |-> t, from_status |-> tasks[t].status, to_status |-> to])
    /\ UNCHANGED <<now, task_details, llm_responses, codegen_jobs, locks, proc, bot_calls>>
    /\ UNCHANGED event_vars

(* SpecReentry: concurrent dispatcher processes run the needs_review       *)
(* processor over tasks that enter NEEDS_REVIEW more than once, so that a  *)
(* task has ledger entries of several correlation keys                     *)
NextReentry ==
    \/ \E t \in Tasks, to \in {"NEEDS_REVIEW", "RUNNING"} : OrchReviewCycle(t, to)
    \/ \E p \in Procs :
          \/ StartBatch(p, "needs_review", 1)
          \/ SelectNone(p)
          \/ \E row \in Selector(proc[p].kind), outcome \in SendOutcomes :
                ProcessItemWithin(p, row, outcome, MaxLedgerReentry)
          \/ Commit(p)
          \/ Return(p)

SpecReentry == Init /\ [][NextReentry]_vars

(* the rows of the key of row i that precede it *)
Before(i) == {j \in KeyRows(KeyOf(Entry(i))) : j < i}

(* C26: every ledger entry's attempt_no is the attempt_no of the latest    *)
(* previous entry of the same correlation key plus 1, or 1 when there is   *)
(* none; so the entries of a key, in id order, are numbered 1, 2, 3, ...   *)
(* without gap or repeat.                                                  *)
C26_AttemptNoIncrementsPerKey ==
    \A i \in LedgerRows :
        /\ Entry(i).attempt_no =
              IF Before(i) = {} THEN 1 ELSE Entry(MaxOf(Before(i))).attempt_no + 1
        /\ Entry(i).attempt_no = Cardinality(Before(i)) + 1
        /\ \A j \in Before(i) : Entry(j).attempt_no < Entry(i).attempt_no

(* a task has two entries for its first NEEDS_REVIEW transition and, after *)
(* them, a first entry for its second one, numbered 1 again                *)
C26_Witness ==
    \E i, j, k \in LedgerRows :
        /\ i < j /\ j < k
        /\ Entry(i).task_id = Entry(k).task_id
        /\ KeyOf(Entry(i)) = KeyOf(Entry(j))
        /\ Entry(i).attempt_no = 1 /\ Entry(j).attempt_no = 2
        /\ Entry(k).transition_id > Entry(i).transition_id
        /\ Entry(k).attempt_no = 1

---------------------------------------------------------------------------
(* first_attempt_at *)

(* SpecRetryLater: the waiting_user processor of one dispatcher process,   *)
(* with every outcome of the send and time passing between its cycles      *)
NextRetryLater ==
    \/ \E t \in Tasks : OrchTransition(t, "WAITING_USER")
    \/ \E t \in Tasks : OrchLlmResult(t, ClarifyResult(LlmResultCount + 1))
    \/ Tick
    \/ Dispatcher({1}, {"waiting_user"})

SpecRetryLater == Init /\ [][NextRetryLater]_vars

(* C27: all ledger entries of one correlation key carry the same            *)
(* first_attempt_at, the time of the key's first attempt, and in every      *)
(* entry first_attempt_at <= last_attempt_at.                               *)
C27_FirstAttemptAtIsFixed ==
    \A i \in LedgerRows :
        /\ Entry(i).first_attempt_at <= Entry(i).last_attempt_at
        /\ Before(i) = {} => Entry(i).first_attempt_at = Entry(i).last_attempt_at
        /\ \A j \in Before(i) : Entry(j).first_attempt_at = Entry(i).first_attempt_at

(* a key was attempted again at a later time and its second entry keeps the *)
(* time of the first attempt                                                *)
C27_Witness ==
    \E i \in LedgerRows : \E j \in Before(i) :
        /\ Entry(j).last_attempt_at < Entry(i).last_attempt_at
        /\ Entry(i).first_attempt_at = Entry(j).last_attempt_at
        /\ Entry(i).first_attempt_at < Entry(i).last_attempt_at

---------------------------------------------------------------------------
(* Data incompleteness *)

(* SpecIncomplete: tasks whose raw_input has no chat id, or whose question *)
(* to render is not there yet, go through the waiting_user and codegen     *)
(* processors of one dispatcher process                                    *)
InitIncomplete == EngineInit({QuestionInput, NoChatInput}) /\ EventInit

NextIncomplete ==
    \/ \E t \in Tasks : OrchTransition(t, "WAITING_USER")
    \/ \E t \in Tasks : OrchLlmResult(t, ClarifyResult(LlmResultCount + 1))
    \/ \E t \in Tasks : OrchCodegenResult(t)
    \/ Dispatcher({1}, {"waiting_user", "codegen"})

SpecIncomplete == InitIncomplete /\ [][NextIncomplete]_vars

MissingFacts(e) == e.error = "missing chat_id/text"

(* the processor of p takes an item: it goes from selecting to holding an  *)
(* entry to commit                                                         *)
TakesItem(p) == proc[p].pc = "select" /\ proc'[p].pc = "commit"

(* C28: when the chat id or the rendered text of an item is missing, the   *)
(* attempt records a failed entry with retryable = false and no            *)
(* next_attempt_at, bot.send_message is not invoked, and the processor     *)
(* goes on to its commit; a recorded entry of this kind has no send.       *)
C28_MissingFactsFailWithoutSend ==
    /\ [](\A e \in AllEntries : MissingFacts(e) =>
             /\ e.status = "failed" /\ ~e.retryable
             /\ e.next_attempt_at = NullInt
             /\ e.telegram_message_id = NullInt)
    /\ [](\A p \in Procs : proc[p].pc \in {"idle", "select", "commit", "returned"})
    /\ [](Len(bot_calls) = Cardinality({i \in LedgerRows : ~MissingFacts(Entry(i))})
                           + Cardinality({p \in Procs : InFlight(p) /\ ~MissingFacts(proc[p].entry)}))
    /\ [][\A p \in Procs : TakesItem(p) =>
            LET a == ProcessOne(proc[p].kind, proc'[p].row)
            IN  (a.chat_id = NullInt \/ a.text = NoText) =>
                   /\ bot_calls' = bot_calls
                   /\ MissingFacts(proc'[p].entry)
                   /\ proc'[p].entry.status = "failed"
                   /\ ~proc'[p].entry.retryable
                   /\ proc'[p].entry.next_attempt_at = NullInt]_vars

(* committed entries for a task without a chat id and for a task with a    *)
(* chat id but nothing to render, and no message went out                  *)
C28_Witness ==
    /\ \E i \in LedgerRows : MissingFacts(Entry(i)) /\ Entry(i).chat_id = NullInt
    /\ \E j \in LedgerRows : MissingFacts(Entry(j)) /\ Entry(j).chat_id # NullInt
    /\ bot_calls = <<>>
    /\ proc[1].pc = "idle"

---------------------------------------------------------------------------
(* What an attempt records for each outcome of the send *)

(* the entries, committed or held by a process, that record send j: the   *)
(* ones holding its message id or, for a failed send, the j-th entry of    *)
(* an attempted send in commit order                                       *)
SendEntries == {i \in LedgerRows : ~MissingFacts(Entry(i))}

CallOf(i) == Cardinality({k \in SendEntries : k <= i})

EntriesOfCall(j) ==
    {Entry(i) : i \in {k \in SendEntries : CallOf(k) = j}}
    \cup {proc[p].entry : p \in {q \in Procs : /\ InFlight(q)
                                               /\ ~MissingFacts(proc[q].entry)
                                               /\ j = Len(bot_calls)}}

(* C29: when bot.send_message returns normally, exactly one ledger entry   *)
(* is appended for the attempt, with status = sent, retryable = false, no  *)
(* error, no next_attempt_at, the destination chat_id and the message id   *)
(* the channel assigned.                                                   *)
C29_SuccessRecordsOneSentEntry ==
    \A j \in 1..Len(bot_calls) : bot_calls[j].outcome = "ok" =>
        /\ Cardinality({i \in LedgerRows : Entry(i).telegram_message_id = j})
           + Cardinality({p \in Procs : InFlight(p) /\ proc[p].entry.telegram_message_id = j})
           = 1
        /\ \A e \in EntriesOfCall(j) :
              /\ e.status = "sent"
              /\ ~e.retryable
              /\ e.error = Null
              /\ e.next_attempt_at = NullInt
              /\ e.chat_id = bot_calls[j].chat_id
              /\ e.telegram_message_id = j
              /\ KeyOf(e) = KeyOf(bot_calls[j])
        /\ EntriesOfCall(j) # {}

(* a send that succeeded on the second attempt of its key is recorded *)
C29_Witness ==
    \E i \in LedgerRows :
        /\ Entry(i).status = "sent"
        /\ Entry(i).attempt_no = 2
        /\ Entry(i).telegram_message_id = 2
        /\ bot_calls[2].outcome = "ok"
        /\ bot_calls[1].outcome = "transient"

(* C30: a send exception of the permanent class is recorded with           *)
(* status = failed, retryable = false, the error text and no               *)
(* next_attempt_at; every other exception is recorded with status = failed *)
(* and retryable = true with a next_attempt_at, unless the retry cap       *)
(* applies.                                                                *)
C30_FailureClassification ==
    \A j \in 1..Len(bot_calls) :
        /\ EntriesOfCall(j) # {}
        /\ \A e \in EntriesOfCall(j) :
              /\ bot_calls[j].outcome = "permanent" =>
                    /\ e.status = "failed" /\ ~e.retryable
                    /\ e.error = ExcText("permanent")
                    /\ e.next_attempt_at = NullInt
              /\ bot_calls[j].outcome = "transient" =>
                    /\ e.status = "failed"
                    /\ IF AttemptCeilingReached(e) \/ RetryWindowReached(e)
                       THEN ~e.retryable /\ e.next_attempt_at = NullInt
                       ELSE /\ e.retryable
                            /\ e.error = ExcText("transient")
                            /\ e.next_attempt_at > e.last_attempt_at
              /\ e.status = "failed" => bot_calls[j].outcome # "ok"

(* a permanent failure and a retryable failure have both been recorded *)
C30_Witness ==
    \E i, j \in LedgerRows :
        /\ Entry(i).status = "failed" /\ ~Entry(i).retryable
        /\ Entry(i).error = ExcText("permanent")
        /\ bot_calls[CallOf(i)].outcome = "permanent"
        /\ Entry(j).status = "failed" /\ Entry(j).retryable
        /\ bot_calls[CallOf(j)].outcome = "transient"

---------------------------------------------------------------------------
(* The selectors as queues *)

(* the kinds whose selectors the repository defines *)
RepositoryKinds == {"waiting_user", "codegen", "needs_review"}

(* SpecSelectors: two dispatcher processes running the waiting_user, the  *)
(* codegen and the needs_review processor with a channel that accepts     *)
(* every send, over tasks that enter their statuses at different times    *)
NextSelectors ==
    \/ \E t \in Tasks, to \in {"WAITING_USER", "NEEDS_REVIEW"} : OrchTransition(t, to)
    \/ \E t \in Tasks : OrchCodegenResult(t)
    \/ Tick
    \/ \E p \in Procs, kind \in RepositoryKinds : StartBatch(p, kind, MaxLimit)
    \/ \E p \in Procs : SelectNone(p)
    \/ \E p \in Procs : \E row \in Selector(proc[p].kind) : ProcessItem(p, row, "ok")
    \/ \E p \in Procs : Commit(p)
    \/ \E p \in Procs : Return(p)

SpecSelectors == Init /\ [][NextSelectors]_vars

(* the task matches the status and fact conditions of the kind *)
Matches(kind, t) ==
    CASE kind = "waiting_user" -> tasks[t].status = "WAITING_USER"
      [] kind = "codegen"      -> IdsOf(t, "codegen_result") # {}
      [] kind = "needs_review" ->
            /\ tasks[t].status = "NEEDS_REVIEW"
            /\ LatestTransitionId(t, "NEEDS_REVIEW") # NullInt
            /\ \E i \in IdsOf(t, "raw_input") : task_details[i].content.kind = "question"

(* the current occurrence of the kind for the task has a sent entry: for  *)
(* needs_review the entry of the latest NEEDS_REVIEW transition, for the  *)
(* other kinds an entry with no fact of the task recorded after it        *)
AlreadySent(kind, t) ==
    \E i \in LedgerRows :
        /\ Entry(i).task_id = t
        /\ Entry(i).message_kind = MessageKind(kind)
        /\ Entry(i).status = "sent"
        /\ IF kind = "needs_review"
           THEN Entry(i).transition_id = LatestTransitionId(t, "NEEDS_REVIEW")
           ELSE ~NewFactAfter(t, i)

Eligible(kind, t) == Matches(kind, t) /\ ~AlreadySent(kind, t)

(* the task is eligible and unlocked, and no eligible unlocked task is    *)
(* older                                                                  *)
OldestUnlocked(kind, t) ==
    /\ Eligible(kind, t)
    /\ locks[t] = 0
    /\ \A u \in Tasks : (Eligible(kind, u) /\ locks[u] = 0)
                           => tasks[t].updated_at <= tasks[u].updated_at

(* C31 (as claimed): a selector call takes one task, which is eligible    *)
(* for the kind (its current occurrence has no sent entry), unlocked, and *)
(* has the oldest updated_at of the eligible unlocked tasks.              *)
C31_SelectorReturnsOldestEligible ==
    [][\A p \in Procs : TakesItem(p) =>
          \E t \in Tasks :
              /\ proc'[p].row.id = t
              /\ {u \in Tasks : locks'[u] # locks[u]} = {t}
              /\ OldestUnlocked(proc[p].kind, t)]_vars

---------------------------------------------------------------------------
(* One call of process_core_<kind>_notifications(limit) *)

(* limits from 0 (a call that still makes one step) to one more than the  *)
(* number of tasks                                                        *)
MaxBatchLimit == NumTasks + 1

(* SpecBatch: the orchestrator fills the backlog while the dispatcher is  *)
(* idle; one dispatcher process then runs one call over an empty ledger   *)
NextBatch ==
    \/ \E t \in Tasks, to \in {"WAITING_USER", "NEEDS_REVIEW"} :
          proc[1].pc = "idle" /\ OrchTransition(t, to)
    \/ Tick
    \/ \E kind \in {"waiting_user", "needs_review"}, limit \in 0..MaxBatchLimit :
          LedgerRows = {} /\ StartBatch(1, kind, limit)
    \/ SelectNone(1)
    \/ \E row \in Selector(proc[1].kind), outcome \in SendOutcomes :
          ProcessItemWithin(1, row, outcome, MaxBatchLimit)
    \/ Commit(1)
    \/ Return(1)

SpecBatch == Init /\ [][NextBatch]_vars

(* the tasks eligible for the kind when the call started *)
Backlog(kind) == {t \in Tasks : Matches(kind, t)}

(* the tasks the call has processed *)
ProcessedTasks == {Entry(i).task_id : i \in LedgerRows}

(* C32 (as claimed): a call makes at most max(limit, 1) steps and returns *)
(* the number of items processed, which is the number of eligible tasks   *)
(* or the limit, whichever is smaller; a backlog smaller than the limit   *)
(* is drained by the call.                                                *)
C32_BatchDrain ==
    \A p \in Procs :
        /\ proc[p].processed >= 0
        /\ proc[p].processed <= BatchLimit(proc[p].limit)
        /\ proc[p].pc = "returned" =>
              LET B == Backlog(proc[p].kind)
              IN  /\ proc[p].processed = Min(Cardinality(B), BatchLimit(proc[p].limit))
                  /\ Cardinality(B) <= BatchLimit(proc[p].limit) => ProcessedTasks = B

---------------------------------------------------------------------------
(* One transaction per item *)

(* SpecBatchFaults: one call of the waiting_user processor over an empty  *)
(* ledger, in which an exception is raised or the process is killed       *)
NextBatchFaults ==
    \/ \E t \in Tasks : proc[1].pc = "idle" /\ OrchAsk(t)
    \/ Tick
    \/ \E limit \in 1..MaxBatchLimit : LedgerRows = {} /\ StartBatch(1, "waiting_user", limit)
    \/ SelectNone(1)
    \/ \E row \in Selector(proc[1].kind), outcome \in SendOutcomes :
          ProcessItemWithin(1, row, outcome, MaxBatchLimit)
    \/ Commit(1)
    \/ Return(1)
    \/ Raise(1)
    \/ Resume(1)
    \/ Kill(1)
    \/ Restart(1)

SpecBatchFaults == Init /\ [][NextBatchFaults]_vars

LocksOf(p) == {t \in Tasks : locks[t] = p}

(* the batch of p is cut short by an exception or a kill *)
Faults(p) == proc[p].pc \in {"select", "commit"} /\ proc'[p].pc \in {"caught", "killed"}

(* C33: a process holds a row lock and an unwritten entry for at most one *)
(* item, the one between its selector call and its commit; at every       *)
(* selector call the entries of all items processed so far in the batch   *)
(* are committed; an exception or a kill leaves the committed entries of  *)
(* the earlier items in place and loses only the item in hand.            *)
C33_CommitPerItem ==
    /\ [](\A p \in Procs :
            /\ Cardinality(LocksOf(p)) <= 1
            /\ InFlight(p) => LocksOf(p) = {proc[p].row.id}
            /\ ~InFlight(p) => (LocksOf(p) = {} /\ proc[p].entry = None)
            /\ proc[p].pc \in {"select", "commit", "returned"} =>
                  Cardinality(LedgerRows) = proc[p].processed)
    /\ [][\A p \in Procs :
            /\ Faults(p) =>
                  /\ task_details' = task_details
                  /\ Cardinality(LedgerRows') = proc[p].processed
                  /\ \A t \in Tasks : locks'[t] # p
            /\ (InFlight(p) /\ ~InFlight(p)' /\ ~Faults(p)) =>
                  /\ Len(task_details') = Len(task_details) + 1
                  /\ task_details'[Len(task_details')].content = proc[p].entry
                  /\ proc'[p].processed = proc[p].processed + 1]_vars

(* the first item of the batch is committed, the message of the second, a *)
(* different task, went out, and then the batch was cut short             *)
C33_Witness ==
    /\ proc[1].pc \in {"caught", "killed"}
    /\ Cardinality(LedgerRows) = 1
    /\ Len(bot_calls) = 2
    /\ \E i \in LedgerRows : Entry(i).status = "sent"
                             /\ Entry(i).task_id # bot_calls[2].task_id

---------------------------------------------------------------------------
(* Callers of transition_task racing for one status change *)

(* the open transition_task calls *)
OpenCalls == {s \in Sessions : sess[s].call # None /\ sess[s].call.fn = "transition_task"}

(* the transition rows of task t, by id *)
RowsOf(t) == {k \in 1..Len(task_transitions) : task_transitions[k].task_id = t}

(* the row of the task that precedes row k, 0 when k is its first *)
PrevTransition(k) ==
    LET P == {j \in RowsOf(task_transitions[k].task_id) : j < k}
    IN  IF P = {} THEN 0 ELSE MaxOf(P)

(* C34: of the transition_task calls made for one status change of a task *)
(* (same task, same from_status) at most one returns true: two open calls *)
(* never both hold true, a true call appends one row and a false call     *)
(* none, every row out of a status directly follows the task's row into   *)
(* that status, and while the winner's transaction is open the task has   *)
(* the winner's to_status.                                                *)
C34_OneWinnerPerStatusChange ==
    /\ [](\A s, o \in OpenCalls :
            (/\ s # o
             /\ sess[s].call.task_id = sess[o].call.task_id
             /\ sess[s].call.from_status = sess[o].call.from_status)
                => ~(sess[s].call.result /\ sess[o].call.result))
    /\ [](\A s \in OpenCalls : sess[s].call.result =>
            /\ tasks[sess[s].call.task_id].status = sess[s].call.to_status
            /\ locks[sess[s].call.task_id] = SessionLock(s))
    /\ [](\A k \in 1..Len(task_transitions) :
            task_transitions[k].from_status = "SEND_TO_USER" =>
                /\ PrevTransition(k) # 0
                /\ task_transitions[PrevTransition(k)].to_status = "SEND_TO_USER")
    /\ [][\A s \in Sessions : TransitionTaskStep(s) =>
            /\ sess'[s].call.result => Len(task_transitions') = Len(task_transitions) + 1
            /\ ~sess'[s].call.result => task_transitions' = task_transitions
            /\ ~sess'[s].call.result => tasks' = tasks]_vars

(* a task was handed over once and closed as DONE by one caller; another  *)
(* caller, asking for the same status change with FAILED, got false       *)
C34_Witness ==
    \E o \in OpenCalls, t \in Tasks :
        /\ sess[o].call.task_id = t
        /\ sess[o].call.from_status = "SEND_TO_USER"
        /\ sess[o].call.to_status = "FAILED"
        /\ ~sess[o].call.result
        /\ Cardinality(RowsOf(t)) = 2
        /\ task_transitions[MaxOf(RowsOf(t))].from_status = "SEND_TO_USER"
        /\ task_transitions[MaxOf(RowsOf(t))].to_status = "DONE"
        /\ tasks[t].status = "DONE"

---------------------------------------------------------------------------
(* One attempt per key in a batch *)

(* the keys of the entries written and of the sends made *)
BatchKeys == Keys \cup {KeyOf(bot_calls[j]) : j \in 1..Len(bot_calls)}

(* C35 (as claimed): in one call of process_core_<kind>_notifications a   *)
(* correlation key gets at most one send and at most one ledger entry,    *)
(* whatever the outcome of the attempt: a task processed by one iteration *)
(* is not taken again by a later iteration of the call.                   *)
C35_OncePerKeyPerBatch ==
    /\ \A k \in BatchKeys :
          /\ Cardinality(Calls(k)) <= 1
          /\ Cardinality(KeyRows(k)) <= 1
    /\ \A p \in Procs : InFlight(p) => proc[p].row.id \notin ProcessedTasks

---------------------------------------------------------------------------
(* Shape of a ledger entry *)

(* C36: every tg_delivery entry has status sent or failed; a sent entry   *)
(* has retryable = false, no error and no next_attempt_at, and has a      *)
(* chat_id; next_attempt_at is present exactly in the failed entries with *)
(* retryable = true; attempt_no >= 1.                                     *)
C36_EntryWellFormed ==
    \A e \in AllEntries :
        /\ e.status \in {"sent", "failed"}
        /\ e.status = "sent" =>
              /\ ~e.retryable
              /\ e.error = Null
              /\ e.next_attempt_at = NullInt
              /\ e.chat_id # NullInt
        /\ (e.next_attempt_at # NullInt) <=> (e.status = "failed" /\ e.retryable)
        /\ e.attempt_no >= 1

(* the ledger holds a sent entry and a failed, retryable entry with its   *)
(* next_attempt_at                                                        *)
C36_Witness ==
    \E i, j \in LedgerRows :
        /\ Entry(i).status = "sent" /\ Entry(i).chat_id = 500
        /\ Entry(j).status = "failed" /\ Entry(j).retryable
        /\ Entry(j).next_attempt_at = Entry(j).last_attempt_at + BackoffSeq[1]

---------------------------------------------------------------------------
(* Attempts of a new clarification round *)

(* the orchestrator asks the user again: a new LLM request ends in another *)
(* clarifying question while the task is in WAITING_USER                   *)
OrchAskAgain(t) ==
    /\ tasks[t].status = "WAITING_USER"
    /\ LlmResultCount < MaxResults
    /\ task_details' = Append(task_details,
           Detail(t, "llm_result", ClarifyResult(LlmResultCount + 1)))
    /\ UNCHANGED <<now, tasks, task_transitions, llm_responses, codegen_jobs, locks,
                   proc, bot_calls>>
    /\ UNCHANGED event_vars

(* SpecRounds: the waiting_user processor of one dispatcher process over   *)
(* tasks that go through more than one clarification round                 *)
NextRounds ==
    \/ \E t \in Tasks : OrchAsk(t)
    \/ \E t \in Tasks : OrchAskAgain(t)
    \/ Tick
    \/ Dispatcher({1}, {"waiting_user"})

SpecRounds == Init /\ [][NextRounds]_vars

(* the waiting_user entries of task t written since its latest llm_result, *)
(* that is, for its current clarification round                            *)
RoundEntries(t) ==
    LET R == IdsOf(t, "llm_result")
        cur == IF R = {} THEN 0 ELSE MaxOf(R)
    IN  {i \in LedgerRows : /\ Entry(i).task_id = t
                            /\ Entry(i).message_kind = "waiting_user"
                            /\ i > cur}

(* C37 (as claimed): the first attempt for a new clarification round is    *)
(* recorded with attempt_no = 1 and first_attempt_at = now, even when      *)
(* earlier rounds of the task have waiting_user entries: the lookup of the *)
(* previous attempt does not pick up entries of another round.             *)
C37_NewOccurrenceStartsAtOne ==
    [][\A p \in Procs : TakesItem(p) =>
          \E t \in Tasks :
              /\ proc'[p].row.id = t
              /\ RoundEntries(t) = {} =>
                    /\ proc'[p].entry.attempt_no = 1
                    /\ proc'[p].entry.first_attempt_at = now]_vars

---------------------------------------------------------------------------
(* Progress of the queue *)

(* For behaviours without end the ledger is kept as the worker reads it:  *)
(* _get_latest_tg_delivery_attempt takes the latest entry of the key, so  *)
(* a new entry takes the place of the key's previous one, and attempt     *)
(* numbers past the ceiling, which _should_stop_retrying does not tell    *)
(* apart, are held at one past it.                                        *)
Saturated(e) == [e EXCEPT !.attempt_no = Min(e.attempt_no, TG_DELIVERY_MAX_ATTEMPTS + 1)]

(* _process_one_* up to its commit, without the record of the sends *)
TakeItemLive(p, row, outcome) ==
    /\ proc[p].pc = "select"
    /\ row \in Selector(proc[p].kind)
    /\ locks' = [locks EXCEPT ![row.id] = p]
    /\ \E a \in {ProcessOne(proc[p].kind, row)} :
          /\ (~WillSend(a) => outcome = "ok")
          /\ \E e \in {Saturated(send_with_tg_delivery_trace(a, outcome, 1))} :
                proc' = [proc EXCEPT ![p].pc = "commit", ![p].row = row, ![p].entry = e]
    /\ UNCHANGED <<now, tasks, task_transitions, task_details, llm_responses,
                   codegen_jobs, bot_calls>>
    /\ UNCHANGED event_vars

(* insert_task_detail and session.commit(), on the ledger as it is read *)
CommitLatest(p) ==
    /\ proc[p].pc = "commit"
    /\ LET K == KeyRows(KeyOf(proc[p].entry))
           d == Detail(proc[p].row.id, "tg_delivery", proc[p].entry)
       IN  task_details' = IF K = {} THEN Append(task_details, d)
                           ELSE [task_details EXCEPT ![MaxOf(K)] = d]
    /\ locks' = [locks EXCEPT ![proc[p].row.id] = 0]
    /\ proc' = [proc EXCEPT
           ![p].pc = IF proc[p].processed + 1 >= BatchLimit(proc[p].limit)
                     THEN "returned" ELSE "select",
           ![p].processed = proc[p].processed + 1,
           ![p].row = None, ![p].entry = None]
    /\ UNCHANGED <<now, tasks, task_transitions, llm_responses, codegen_jobs, bot_calls>>
    /\ UNCHANGED event_vars

(* the cycles of one dispatcher process with a channel that accepts every *)
(* send: run_loop calls the waiting_user processor again and again        *)
DispatcherLive ==
    \/ StartBatch(1, "waiting_user", MaxLimit)
    \/ SelectNone(1)
    \/ \E row \in Selector(proc[1].kind) : TakeItemLive(1, row, "ok")
    \/ CommitLatest(1)
    \/ Return(1)

NextLive ==
    \/ \E t \in Tasks : OrchAsk(t)
    \/ Tick
    \/ DispatcherLive

(* SpecLive: the dispatcher never stops while it has a step to take *)
SpecLive == Init /\ [][NextLive]_vars /\ WF_vars(DispatcherLive)

(* C38 (as claimed): with the dispatcher cycles scheduled fairly, a task  *)
(* that waits for the user with a complete clarifying question, and that  *)
(* stays so, eventually has a terminal entry for it, which is status=sent *)
(* when the channel accepts the send.                                     *)
C38_EligibleKeyEventuallyTerminal ==
    \A t \in Tasks :
        (tasks[t].status = "WAITING_USER")
            ~> (\E i \in LedgerRows : /\ Entry(i).task_id = t
                                      /\ Entry(i).message_kind = "waiting_user"
                                      /\ Entry(i).status = "sent")

---------------------------------------------------------------------------
(* Head-of-line blocking *)

(* SpecBlocked: the tasks wait for the user before the dispatcher's first *)
(* item; one dispatcher process then runs cycle after cycle against a     *)
(* channel on which every send fails, for good or for now                 *)
NextBlocked ==
    \/ \E t \in Tasks : (proc[1].pc = "idle" /\ LedgerRows = {}) /\ OrchAsk(t)
    \/ Tick
    \/ StartBatch(1, "waiting_user", NumTasks)
    \/ SelectNone(1)
    \/ \E row \in Selector(proc[1].kind), outcome \in {"permanent", "transient"} :
          ProcessItemWithin(1, row, outcome, MaxLedgerReentry)
    \/ Commit(1)
    \/ Return(1)

SpecBlocked == Init /\ [][NextBlocked]_vars

(* C39 (as claimed): a task whose notification failed for good, or waits  *)
(* for its backoff, does not hold up the others: when a cycle whose limit *)
(* covers the backlog returns, every task that was waiting when the cycle *)
(* began has been selected.                                               *)
C39_NoHeadOfLineBlocking ==
    \A p \in Procs :
        (proc[p].pc = "returned" /\ proc[p].processed > 0) =>
            Backlog(proc[p].kind) \subseteq ProcessedTasks

=============================================================================
